---------------------------- MODULE Spec2Model ----------------------------
(***************************************************************************)
(* Examination portal (Orli Exam Creator): the plain-text to math-markup   *)
(* rendering pipeline of utils.js (escapeHtml, convertPlainToLatexFragment,*)
(* renderMixedText) and the handlers that put text into a view.            *)
(*                                                                         *)
(* A JavaScript string is a sequence of one-character strings.  Every      *)
(* regular expression of the source is translated to a matcher MatchAt     *)
(* that says, for a position of the subject, how many characters the       *)
(* expression matches there (0: none) and what replaces them; a global     *)
(* replace or a split is the left-to-right scan the engine makes.          *)
(*                                                                         *)
(* The repository holds two copies of utils.js: src/js/utils.js and        *)
(* src/unnamed/part_000.  Definitions of the second copy end in _p0.       *)
(***************************************************************************)
EXTENDS Integers, Sequences, FiniteSets, TLC

\* ------------------------------------------------------------------ bounds
\* Longest generated input, in chunks of HtmlChunks or TokenChunks.
MaxChunks == 2
\* Longest A and B of a generated (A)/(B), in characters of both together.
MaxInner == 4
\* Longest numerator and denominator of a generated n/d, in digits.
MaxDigits == 2
\* Longest argument X of a generated sqrt(X), in characters.
MaxArg == 4
\* Longest generated input of the normalizer, in chunks of WordChunks or of
\* MalformedChunks.
MaxPieces == 3

\* -------------------------------------------------------------- characters
Lower == {"a","b","c","d","e","f","g","h","i","j","k","l","m",
          "n","o","p","q","r","s","t","u","v","w","x","y","z"}
Upper == {"A","B","C","D","E","F","G","H","I","J","K","L","M",
          "N","O","P","Q","R","S","T","U","V","W","X","Y","Z"}
Letter == Lower \cup Upper
Digit == {"0","1","2","3","4","5","6","7","8","9"}
\* \w of a regular expression
WordChar == Letter \cup Digit \cup {"_"}
\* \s of a regular expression (the members an input here can hold; a
\* non-ASCII character is written by its code point)
Space == {" ", "\t", "\n", "\f", "\r", "U+00A0"}
\* The character class [=+\-x:<=>=<>^] of tokenPattern and of the math-like
\* test; its four non-ASCII members (the multiplication and division signs,
\* less-or-equal, greater-or-equal) are written by their code points.
MathSymbol == {"=", "+", "-", "U+00D7", "U+00F7", "U+2264", "U+2265",
               "<", ">", "^"}

Min(S) == CHOOSE x \in S : \A y \in S : x <= y

\* s[i], or "" past either end
At(s, i) == IF i >= 1 /\ i <= Len(s) THEN s[i] ELSE ""

\* The first position j >= i with s[j] = c; 0 when there is none.
RECURSIVE IndexOf(_, _, _)
IndexOf(s, c, i) ==
  IF i > Len(s) THEN 0
  ELSE IF s[i] = c THEN i
  ELSE IndexOf(s, c, i + 1)

\* The last position of the longest run of characters of C that starts at i
\* (i - 1 when s[i] is not in C): a greedy C* from i.
RECURSIVE RunEnd(_, _, _)
RunEnd(s, C, i) ==
  IF i > Len(s) THEN Len(s)
  ELSE IF s[i] \notin C THEN i - 1
  ELSE RunEnd(s, C, i + 1)

\* Whether lit occurs in s at position i.
StartsAt(s, lit, i) ==
  /\ i + Len(lit) - 1 <= Len(s)
  /\ \A k \in 1..Len(lit) : s[i + k - 1] = lit[k]

\* Whether lit occurs in s at position i, letter case ignored (the i flag;
\* lit is lower case).
LowerSeq == <<"a","b","c","d","e","f","g","h","i","j","k","l","m",
             "n","o","p","q","r","s","t","u","v","w","x","y","z">>
UpperSeq == <<"A","B","C","D","E","F","G","H","I","J","K","L","M",
             "N","O","P","Q","R","S","T","U","V","W","X","Y","Z">>
LowerOf(c) ==
  IF c \in Upper THEN LowerSeq[CHOOSE k \in 1..26 : UpperSeq[k] = c] ELSE c

StartsAtIgnoreCase(s, lit, i) ==
  /\ i + Len(lit) - 1 <= Len(s)
  /\ \A k \in 1..Len(lit) : LowerOf(s[i + k - 1]) = lit[k]

\* \b between s[i-1] and s[i]
WordBoundary(s, i) == (At(s, i - 1) \in WordChar) # (At(s, i) \in WordChar)

\* s occurs somewhere in t
Contains(t, s) == \E i \in 1..(Len(t) - Len(s) + 1) : StartsAt(t, s, i)

NoMatch == [n |-> 0, r |-> <<>>]

\* ------------------------------------------------------- JavaScript values
\* A value a caller can pass: null, undefined, a string, a number (v: its
\* decimal digits) or an object whose conversion to a string throws (one with
\* no usable toString, such as Object.create(null)).
JsNull == [t |-> "null", v |-> <<>>]
JsUndefined == [t |-> "undefined", v |-> <<>>]
JsObject == [t |-> "object", v |-> <<>>]
JsString(s) == [t |-> "string", v |-> s]
JsNumber(digits) == [t |-> "number", v |-> digits]

\* ToBoolean(x): what `!x` and `x || y` test.
Truthy(x) ==
  CASE x.t = "string" -> x.v # <<>>
    [] x.t = "number" -> x.v # <<"0">>
    [] x.t = "object" -> TRUE
    [] OTHER -> FALSE

\* Whether String(x) throws.
StringThrows(x) == x.t = "object"

\* String(x), for an x it does not throw on.
String(x) ==
  CASE x.t = "null" -> <<"n","u","l","l">>
    [] x.t = "undefined" -> <<"u","n","d","e","f","i","n","e","d">>
    [] OTHER -> x.v

\* x || '' of renderMixedText
OrEmpty(x) == IF Truthy(x) THEN x ELSE JsString(<<>>)

\* --------------------------------------------------------------- escapeHtml
\* s.replace(/c/g, entity) for a single character c
RECURSIVE ReplaceChar(_, _, _)
ReplaceChar(s, c, entity) ==
  IF s = <<>> THEN <<>>
  ELSE (IF Head(s) = c THEN entity ELSE <<Head(s)>>)
       \o ReplaceChar(Tail(s), c, entity)

AmpEntity == <<"&","a","m","p",";">>
LtEntity == <<"&","l","t",";">>
GtEntity == <<"&","g","t",";">>
QuotEntity == <<"&","q","u","o","t",";">>
AposEntity == <<"&","#","0","3","9",";">>
AposEntity_p0 == <<"&","#","3","9",";">>

\* A replace chain that escapes the ampersand last.
escapeChainAmpLast(s) ==
  ReplaceChar(
    ReplaceChar(
      ReplaceChar(
        ReplaceChar(
          ReplaceChar(s, "<", LtEntity),
          ">", GtEntity),
        "\"", QuotEntity),
      "'", AposEntity),
    "&", AmpEntity)

\* A replace chain that has lost its "&" step.
escapeChainNoAmp(s) ==
  ReplaceChar(
    ReplaceChar(
      ReplaceChar(
        ReplaceChar(s, "<", LtEntity),
        ">", GtEntity),
      "\"", QuotEntity),
    "'", AposEntity)

\* A replace chain that has lost its "<" step.
escapeChainKeepsLt(s) ==
  ReplaceChar(
    ReplaceChar(
      ReplaceChar(
        ReplaceChar(s, "&", AmpEntity),
        ">", GtEntity),
      "\"", QuotEntity),
    "'", AposEntity)

\* The replace chain of escapeHtml on the string String(s).
escapeChain(s) ==
  ReplaceChar(
    ReplaceChar(
      ReplaceChar(
        ReplaceChar(
          ReplaceChar(s, "&", AmpEntity),
          "<", LtEntity),
        ">", GtEntity),
      "\"", QuotEntity),
    "'", AposEntity)

escapeChain_p0(s) ==
  ReplaceChar(
    ReplaceChar(
      ReplaceChar(
        ReplaceChar(
          ReplaceChar(s, "&", AmpEntity),
          "<", LtEntity),
        ">", GtEntity),
      "\"", QuotEntity),
    "'", AposEntity_p0)

\* escapeHtml(x) for a value x that String() converts.
escapeHtml(x) ==
  IF x.t \in {"null", "undefined"} THEN <<>> ELSE escapeChain(String(x))

escapeHtml_p0(x) ==
  IF x.t \in {"null", "undefined"} THEN <<>> ELSE escapeChain_p0(String(x))

\* ------------------------------------------- convertPlainToLatexFragment
FracOpen == <<"\\","f","r","a","c","{">>
SqrtOpen == <<"\\","s","q","r","t","{">>
PiMacro == <<"\\","p","i">>
EulerMacro == <<"\\","m","a","t","h","r","m","{","e","}">>
\* The template literals of part_000 write four backslashes: two characters.
FracOpen_p0 == <<"\\","\\","f","r","a","c","{">>
SqrtOpen_p0 == <<"\\","\\","s","q","r","t","{">>
PiMacro_p0 == <<"\\","\\","p","i">>
EulerMacro_p0 == <<"\\","\\","m","a","t","h","r","m","{","e","}">>

\* A parenthesized-fraction rule that writes its groups in the wrong order.
parenFractionRuleSwapped(s, i) ==
  LET j == IndexOf(s, ")", i + 1)
      k == IndexOf(s, ")", j + 3)
  IN  IF /\ At(s, i) = "("
         /\ j > i + 1
         /\ At(s, j + 1) = "/"
         /\ At(s, j + 2) = "("
         /\ k > j + 3
      THEN [n |-> k - i + 1,
            r |-> FracOpen \o SubSeq(s, j + 3, k - 1) \o <<"}", "{">>
                  \o SubSeq(s, i + 1, j - 1) \o <<"}">>]
      ELSE NoMatch

\* /\(([^)]+)\)\/\(([^)]+)\)/ at i: "(", A up to the first ")", ")/(", B up
\* to the next ")", ")"; replaced by \frac{A}{B}.
parenFractionRule(s, i) ==
  LET j == IndexOf(s, ")", i + 1)
      k == IndexOf(s, ")", j + 3)
  IN  IF /\ At(s, i) = "("
         /\ j > i + 1
         /\ At(s, j + 1) = "/"
         /\ At(s, j + 2) = "("
         /\ k > j + 3
      THEN [n |-> k - i + 1,
            r |-> FracOpen \o SubSeq(s, i + 1, j - 1) \o <<"}", "{">>
                  \o SubSeq(s, j + 3, k - 1) \o <<"}">>]
      ELSE NoMatch

\* A bare-fraction rule without its two \b: /([0-9]+)\/([0-9]+)/.
bareFractionRuleUnbounded(s, i) ==
  LET j == RunEnd(s, Digit, i)
      k == RunEnd(s, Digit, j + 2)
  IN  IF /\ At(s, i) \in Digit
         /\ At(s, j + 1) = "/"
         /\ At(s, j + 2) \in Digit
      THEN [n |-> k - i + 1,
            r |-> FracOpen \o SubSeq(s, i, j) \o <<"}", "{">>
                  \o SubSeq(s, j + 2, k) \o <<"}">>]
      ELSE NoMatch

\* /\b([0-9]+)\/([0-9]+)\b/ at i: a digit run that starts at a word
\* boundary, "/", a digit run that ends at a word boundary.
bareFractionRule(s, i) ==
  LET j == RunEnd(s, Digit, i)
      k == RunEnd(s, Digit, j + 2)
  IN  IF /\ At(s, i) \in Digit
         /\ WordBoundary(s, i)
         /\ At(s, j + 1) = "/"
         /\ At(s, j + 2) \in Digit
         /\ WordBoundary(s, k + 1)
      THEN [n |-> k - i + 1,
            r |-> FracOpen \o SubSeq(s, i, j) \o <<"}", "{">>
                  \o SubSeq(s, j + 2, k) \o <<"}">>]
      ELSE NoMatch

\* A square-root rule that does not ask for the closing parenthesis:
\* /sqrt\(\s*([^)]+)\s*\)?/gi.
sqrtRuleUnclosed(s, i) ==
  LET c == i + 5
      p == IndexOf(s, ")", c)
      j == IF p = 0 THEN Len(s) + 1 ELSE p
      w == RunEnd(s, Space, c)
      a == IF w < j - 1 THEN SubSeq(s, w + 1, j - 1) ELSE <<s[j - 1]>>
  IN  IF StartsAtIgnoreCase(s, <<"s","q","r","t","(">>, i) /\ j > c
      THEN [n |-> (IF p = 0 THEN Len(s) ELSE j) - i + 1,
            r |-> SqrtOpen \o a \o <<"}">>]
      ELSE NoMatch

\* A square-root rule without the i flag: /sqrt\(\s*([^)]+)\s*\)/g.
sqrtRuleCaseSensitive(s, i) ==
  LET c == i + 5
      j == IndexOf(s, ")", c)
      w == RunEnd(s, Space, c)
      a == IF w < j - 1 THEN SubSeq(s, w + 1, j - 1) ELSE <<s[j - 1]>>
  IN  IF StartsAt(s, <<"s","q","r","t","(">>, i) /\ j > c
      THEN [n |-> j - i + 1, r |-> SqrtOpen \o a \o <<"}">>]
      ELSE NoMatch

\* A square-root rule whose group runs to the last ")" of the text:
\* /sqrt\(\s*(.+)\s*\)/gi.
sqrtRuleToLastParen(s, i) ==
  LET c == i + 5
      J == {q \in c..Len(s) : s[q] = ")"}
      j == IF J = {} THEN 0 ELSE CHOOSE q \in J : \A y \in J : y <= q
      w == RunEnd(s, Space, c)
      a == IF w < j - 1 THEN SubSeq(s, w + 1, j - 1) ELSE <<s[j - 1]>>
  IN  IF StartsAtIgnoreCase(s, <<"s","q","r","t","(">>, i) /\ j > c
      THEN [n |-> j - i + 1, r |-> SqrtOpen \o a \o <<"}">>]
      ELSE NoMatch

\* /sqrt\(\s*([^)]+)\s*\)/gi at i: "sqrt(" in any letter case, then the text up
\* to the first ")".  The greedy \s* takes the leading white space and the
\* group the rest; when the text is white space only, \s* gives its last
\* character back to the group.
sqrtRule(s, i) ==
  LET c == i + 5
      j == IndexOf(s, ")", c)
      w == RunEnd(s, Space, c)
      a == IF w < j - 1 THEN SubSeq(s, w + 1, j - 1) ELSE <<s[j - 1]>>
  IN  IF StartsAtIgnoreCase(s, <<"s","q","r","t","(">>, i) /\ j > c
      THEN [n |-> j - i + 1, r |-> SqrtOpen \o a \o <<"}">>]
      ELSE NoMatch

\* [A-Za-z0-9\)\}] and [A-Za-z0-9\{] of the exponent rule
ExponentBase == Letter \cup Digit \cup {")", "}"}
ExponentChar == Letter \cup Digit \cup {"{"}

\* /([A-Za-z0-9\)\}])\^([A-Za-z0-9\{]+)/ at i, replaced by a^{b}.
exponentRule(s, i) ==
  LET k == RunEnd(s, ExponentChar, i + 2)
  IN  IF At(s, i) \in ExponentBase /\ At(s, i + 1) = "^" /\ k >= i + 2
      THEN [n |-> k - i + 1,
            r |-> <<s[i], "^", "{">> \o SubSeq(s, i + 2, k) \o <<"}">>]
      ELSE NoMatch

\* A pi rule without its two \b: /pi/.
piRuleAnywhere(s, i) ==
  IF StartsAt(s, <<"p","i">>, i) THEN [n |-> 2, r |-> PiMacro] ELSE NoMatch

\* /\bpi\b/ at i
piRule(s, i) ==
  IF StartsAt(s, <<"p","i">>, i) /\ WordBoundary(s, i) /\ WordBoundary(s, i + 2)
  THEN [n |-> 2, r |-> PiMacro]
  ELSE NoMatch

\* /\be\b/ at i
eRule(s, i) ==
  IF At(s, i) = "e" /\ WordBoundary(s, i) /\ WordBoundary(s, i + 1)
  THEN [n |-> 1, r |-> EulerMacro]
  ELSE NoMatch

MatchAt(rule, s, i) ==
  CASE rule = "parenFraction" -> parenFractionRule(s, i)
    [] rule = "bareFraction" -> bareFractionRule(s, i)
    [] rule = "sqrt" -> sqrtRule(s, i)
    [] rule = "exponent" -> exponentRule(s, i)
    [] rule = "pi" -> piRule(s, i)
    [] rule = "e" -> eRule(s, i)

\* s.replace(/rule/g, ...) from position i on: the leftmost match is replaced
\* and the scan goes on after it; a character no match starts at is kept.
RECURSIVE ReplaceFrom(_, _, _)
ReplaceFrom(rule, s, i) ==
  IF i > Len(s) THEN <<>>
  ELSE LET m == MatchAt(rule, s, i)
       IN  IF m.n > 0
           THEN m.r \o ReplaceFrom(rule, s, i + m.n)
           ELSE <<s[i]>> \o ReplaceFrom(rule, s, i + 1)

Replace(rule, s) == ReplaceFrom(rule, s, 1)

\* The six replaces of convertPlainToLatexFragment, in the order of the code.
normalizeString(s) ==
  Replace("e",
    Replace("pi",
      Replace("exponent",
        Replace("sqrt",
          Replace("bareFraction",
            Replace("parenFraction", s))))))

\* A convertPlainToLatexFragment whose guard is `if (!plain) return ''`.
convertWithoutZeroGuard(plain) ==
  IF ~Truthy(plain) THEN <<>> ELSE normalizeString(String(plain))

\* convertPlainToLatexFragment(plain), for a plain String() converts.
convertPlainToLatexFragment(plain) ==
  IF ~Truthy(plain) /\ plain # JsNumber(<<"0">>)
  THEN <<>>
  ELSE normalizeString(String(plain))

\* ------------------------ convertPlainToLatexFragment, the copy of part_000
\* The last position q in lo..hi with s[q] = c; 0 when there is none.
LastIndexOf(s, c, lo, hi) ==
  LET J == {q \in lo..hi : s[q] = c}
  IN  IF J = {} THEN 0 ELSE CHOOSE q \in J : \A y \in J : y <= q

\* /\(([^\)]+)\/([^\)]+)\)/ at i: "(", then up to the first ")" a text A/B
\* cut at its last "/" that leaves A and B non-empty (A is greedy).
parenFractionRule_p0(s, i) ==
  LET j == IndexOf(s, ")", i + 1)
      q == LastIndexOf(s, "/", i + 2, j - 2)
  IN  IF At(s, i) = "(" /\ j > 0 /\ q > 0
      THEN [n |-> j - i + 1,
            r |-> FracOpen_p0 \o SubSeq(s, i + 1, q - 1) \o <<"}", "{">>
                  \o SubSeq(s, q + 1, j - 1) \o <<"}">>]
      ELSE NoMatch

\* /\b(\d+)\/(\d+)\b/ at i
bareFractionRule_p0(s, i) ==
  LET m == bareFractionRule(s, i)
  IN  IF m.n > 0
      THEN [n |-> m.n, r |-> <<"\\">> \o m.r]
      ELSE NoMatch

\* /sqrt\(([^\)]+)\)/gi at i
sqrtRule_p0(s, i) ==
  LET c == i + 5
      j == IndexOf(s, ")", c)
  IN  IF StartsAtIgnoreCase(s, <<"s","q","r","t","(">>, i) /\ j > c
      THEN [n |-> j - i + 1,
            r |-> SqrtOpen_p0 \o SubSeq(s, c, j - 1) \o <<"}">>]
      ELSE NoMatch

\* /([A-Za-z0-9\)\}])\^([A-Za-z0-9\{\(]+)/ at i
exponentRule_p0(s, i) ==
  LET k == RunEnd(s, ExponentChar \cup {"("}, i + 2)
  IN  IF At(s, i) \in ExponentBase /\ At(s, i + 1) = "^" /\ k >= i + 2
      THEN [n |-> k - i + 1,
            r |-> <<s[i], "^", "{">> \o SubSeq(s, i + 2, k) \o <<"}">>]
      ELSE NoMatch

piRule_p0(s, i) ==
  IF piRule(s, i).n > 0 THEN [n |-> 2, r |-> PiMacro_p0] ELSE NoMatch

eRule_p0(s, i) ==
  IF eRule(s, i).n > 0 THEN [n |-> 1, r |-> EulerMacro_p0] ELSE NoMatch

MatchAt_p0(rule, s, i) ==
  CASE rule = "parenFraction" -> parenFractionRule_p0(s, i)
    [] rule = "bareFraction" -> bareFractionRule_p0(s, i)
    [] rule = "sqrt" -> sqrtRule_p0(s, i)
    [] rule = "exponent" -> exponentRule_p0(s, i)
    [] rule = "pi" -> piRule_p0(s, i)
    [] rule = "e" -> eRule_p0(s, i)

RECURSIVE ReplaceFrom_p0(_, _, _)
ReplaceFrom_p0(rule, s, i) ==
  IF i > Len(s) THEN <<>>
  ELSE LET m == MatchAt_p0(rule, s, i)
       IN  IF m.n > 0
           THEN m.r \o ReplaceFrom_p0(rule, s, i + m.n)
           ELSE <<s[i]>> \o ReplaceFrom_p0(rule, s, i + 1)

Replace_p0(rule, s) == ReplaceFrom_p0(rule, s, 1)

normalizeString_p0(s) ==
  Replace_p0("e",
    Replace_p0("pi",
      Replace_p0("exponent",
        Replace_p0("sqrt",
          Replace_p0("bareFraction",
            Replace_p0("parenFraction", s))))))

convertPlainToLatexFragment_p0(plain) ==
  IF ~Truthy(plain) /\ plain # JsNumber(<<"0">>)
  THEN <<>>
  ELSE normalizeString_p0(String(plain))

\* ----------------------------------------------------------- tokenPattern
\* The length of the match of [0-9]+(?:\.[0-9]+)?[\/][0-9]+ at i (0: none): a
\* digit run, an optional "." and digit run, "/", a digit run.
numericFractionAt(s, i) ==
  LET j == RunEnd(s, Digit, i)
      d == IF At(s, j + 1) = "." /\ At(s, j + 2) \in Digit
           THEN RunEnd(s, Digit, j + 2)
           ELSE j
  IN  IF At(s, i) \in Digit /\ At(s, d + 1) = "/" /\ At(s, d + 2) \in Digit
      THEN RunEnd(s, Digit, d + 2) - i + 1
      ELSE 0

\* The length of the match of open[^}]+\}\{[^}]+\} at i (0: none).
braced2At(s, open, i) ==
  LET a == i + Len(open)
      j == IndexOf(s, "}", a)
      k == IndexOf(s, "}", j + 2)
  IN  IF StartsAt(s, open, i) /\ j > a /\ At(s, j + 1) = "{" /\ k > j + 2
      THEN k - i + 1
      ELSE 0

\* The length of the match of open[^}]+\} at i (0: none).
braced1At(s, open, i) ==
  LET a == i + Len(open)
      j == IndexOf(s, "}", a)
  IN  IF StartsAt(s, open, i) /\ j > a THEN j - i + 1 ELSE 0

\* tokenPattern of src/js/utils.js at i: the length of the match of the first
\* alternative that matches there (0: none).
tokenPattern(s, i) ==
  LET frac == braced2At(s, FracOpen, i)
      sqrt == braced1At(s, SqrtOpen, i)
      fraction == numericFractionAt(s, i)
  IN  CASE frac > 0 -> frac
        [] sqrt > 0 -> sqrt
        [] At(s, i) = "\\" /\ At(s, i + 1) \in Letter ->
             RunEnd(s, Letter, i + 1) - i + 1
        [] fraction > 0 -> fraction
        [] At(s, i) \in MathSymbol -> 1
        [] OTHER -> 0

\* tokenPattern of part_000, where \f is a form feed and \s the white-space
\* class: "\frac{" reads as form feed, "rac{" and "\sqrt{" as one white-space
\* character, "qrt{".
tokenPattern_p0(s, i) ==
  LET frac == braced2At(s, <<"\f","r","a","c","{">>, i)
      sqrt == IF At(s, i) \in Space
              THEN braced1At(s, <<"q","r","t","{">>, i + 1)
              ELSE 0
      fraction == numericFractionAt(s, i)
  IN  CASE frac > 0 -> frac
        [] sqrt > 0 -> sqrt + 1
        [] At(s, i) \in Letter -> RunEnd(s, Letter, i) - i + 1
        [] fraction > 0 -> fraction
        [] At(s, i) \in MathSymbol -> 1
        [] OTHER -> 0

\* A piece of a split: its text, and whether it is a match of the pattern
\* (sep) or the text between two matches.
Piece(text, sep) == [text |-> text, sep |-> sep]

\* converted.split(tokenPattern) from position i on, g the start of the
\* current gap: the gaps and, as the pattern is one capturing group, the
\* matches, in order; an empty gap is an empty string of the array.
RECURSIVE SplitFrom(_, _, _)
SplitFrom(s, i, g) ==
  IF i > Len(s) THEN <<Piece(SubSeq(s, g, Len(s)), FALSE)>>
  ELSE LET n == tokenPattern(s, i)
       IN  IF n > 0
           THEN <<Piece(SubSeq(s, g, i - 1), FALSE),
                  Piece(SubSeq(s, i, i + n - 1), TRUE)>>
                \o SplitFrom(s, i + n, i + n)
           ELSE SplitFrom(s, i + 1, g)

RECURSIVE SplitFrom_p0(_, _, _)
SplitFrom_p0(s, i, g) ==
  IF i > Len(s) THEN <<Piece(SubSeq(s, g, Len(s)), FALSE)>>
  ELSE LET n == tokenPattern_p0(s, i)
       IN  IF n > 0
           THEN <<Piece(SubSeq(s, g, i - 1), FALSE),
                  Piece(SubSeq(s, i, i + n - 1), TRUE)>>
                \o SplitFrom_p0(s, i + n, i + n)
           ELSE SplitFrom_p0(s, i + 1, g)

NonEmpty(p) == p.text # <<>>

\* A split without its filter(Boolean).
splitUnfiltered(converted) == SplitFrom(converted, 1, 1)

\* converted.split(tokenPattern).filter(Boolean)
tokenize(converted) == SelectSeq(SplitFrom(converted, 1, 1), NonEmpty)
tokenize_p0(converted) == SelectSeq(SplitFrom_p0(converted, 1, 1), NonEmpty)

\* [0-9]+\/[0-9]+ matches in part at i
DigitSlashDigitAt(part, i) ==
  /\ At(part, i) \in Digit
  /\ At(part, RunEnd(part, Digit, i) + 1) = "/"
  /\ At(part, RunEnd(part, Digit, i) + 2) \in Digit

\* A math-like test that has lost the symbol class.
isMathLikeNoSymbol(part) ==
  \E i \in 1..Len(part) :
    \/ StartsAt(part, <<"\\","f","r","a","c">>, i)
    \/ StartsAt(part, <<"\\","s","q","r","t">>, i)
    \/ At(part, i) = "\\" /\ At(part, i + 1) \in Letter
    \/ DigitSlashDigitAt(part, i)

\* The test of the map callback: whether the part holds a match of
\* /\\frac|\\sqrt|\\[a-zA-Z]+|[0-9]+\/[0-9]+|[=+\-...^]/ anywhere.
isMathLike(part) ==
  \E i \in 1..Len(part) :
    \/ StartsAt(part, <<"\\","f","r","a","c">>, i)
    \/ StartsAt(part, <<"\\","s","q","r","t">>, i)
    \/ At(part, i) = "\\" /\ At(part, i + 1) \in Letter
    \/ DigitSlashDigitAt(part, i)
    \/ At(part, i) \in MathSymbol

\* The test of part_000: /\\frac|\\sqrt|[a-zA-Z]+|[0-9]+\/[0-9]+|[=+\-...^]/
isMathLike_p0(part) ==
  \E i \in 1..Len(part) :
    \/ StartsAt(part, <<"\\","f","r","a","c">>, i)
    \/ StartsAt(part, <<"\\","s","q","r","t">>, i)
    \/ At(part, i) \in Letter
    \/ DigitSlashDigitAt(part, i)
    \/ At(part, i) \in MathSymbol

\* ------------------------------------------------------ htmlToPlainText
\* The length of the match at i of one of the expressions of htmlToPlainText
\* (0: none).
HtmlMatchAt(rule, s, i) ==
  CASE rule = "div" -> IF StartsAtIgnoreCase(s, <<"<","d","i","v",">">>, i)
                       THEN 5 ELSE 0
    [] rule = "/div" ->
         IF StartsAtIgnoreCase(s, <<"<","/","d","i","v",">">>, i)
         THEN 6 ELSE 0
    [] rule = "p" -> IF StartsAtIgnoreCase(s, <<"<","p",">">>, i)
                     THEN 3 ELSE 0
    [] rule = "/p" -> IF StartsAtIgnoreCase(s, <<"<","/","p",">">>, i)
                      THEN 4 ELSE 0
    \* /<br\s*\/?>/gi
    [] rule = "br" ->
         LET w == RunEnd(s, Space, i + 3)
             e == IF At(s, w + 1) = "/" THEN w + 2 ELSE w + 1
         IN  IF StartsAtIgnoreCase(s, <<"<","b","r">>, i) /\ At(s, e) = ">"
             THEN e - i + 1 ELSE 0
    \* /<[^>]+>/g
    [] rule = "tag" ->
         LET j == IndexOf(s, ">", i + 1)
         IN  IF At(s, i) = "<" /\ j > i + 1 THEN j - i + 1 ELSE 0
    \* /\n\s*\n/g: from a line break to the last line break of the white
    \* space that follows it
    [] rule = "blankLines" ->
         LET w == RunEnd(s, Space, i + 1)
             q == LastIndexOf(s, "\n", i + 1, w)
         IN  IF At(s, i) = "\n" /\ q > 0 THEN q - i + 1 ELSE 0
    [] rule = "nbsp" -> IF At(s, i) = "U+00A0" THEN 1 ELSE 0

RECURSIVE HtmlReplaceFrom(_, _, _, _)
HtmlReplaceFrom(rule, by, s, i) ==
  IF i > Len(s) THEN <<>>
  ELSE LET n == HtmlMatchAt(rule, s, i)
       IN  IF n > 0
           THEN by \o HtmlReplaceFrom(rule, by, s, i + n)
           ELSE <<s[i]>> \o HtmlReplaceFrom(rule, by, s, i + 1)

\* String.prototype.trim
Trim(s) ==
  LET J == {j \in 1..Len(s) : s[j] \notin Space}
  IN  IF J = {} THEN <<>>
      ELSE SubSeq(s, Min(J), CHOOSE q \in J : \A y \in J : y <= q)

\* htmlToPlainText(html) for a string html
htmlToPlainText(html) ==
  LET t1 == HtmlReplaceFrom("div", <<"\n">>, html, 1)
      t2 == HtmlReplaceFrom("/div", <<"\n">>, t1, 1)
      t3 == HtmlReplaceFrom("p", <<"\n">>, t2, 1)
      t4 == HtmlReplaceFrom("/p", <<"\n">>, t3, 1)
      t5 == HtmlReplaceFrom("br", <<"\n">>, t4, 1)
      t6 == HtmlReplaceFrom("tag", <<>>, t5, 1)
      t7 == HtmlReplaceFrom("blankLines", <<"\n">>, t6, 1)
      t8 == HtmlReplaceFrom("nbsp", <<" ">>, t7, 1)
  IN  IF html = <<>> THEN <<>> ELSE Trim(t8)

\* ------------------------------------------------------- renderMixedText
CodeOpen == <<"<","c","o","d","e",">">>
CodeClose == <<"<","/","c","o","d","e",">">>

\* What katex.renderToString(part, ...) returns when it returns: the engine's
\* own markup, kept as two opaque marks around the text it typeset.
katexRenderToString(part) == <<"<katex>">> \o part \o <<"</katex>">>

\* A callback whose catch returns the part as it is.
renderPartRawOnFailure(parts, k, avail, bad) ==
  IF isMathLike(parts[k].text)
  THEN IF avail
       THEN IF bad = k
            THEN parts[k].text
            ELSE katexRenderToString(parts[k].text)
       ELSE CodeOpen \o escapeHtml(JsString(parts[k].text)) \o CodeClose
  ELSE escapeHtml(JsString(parts[k].text))

\* The callback of parts.map for the part at index k: avail says whether the
\* katex global is there, bad is the index of the part the engine throws on
\* (0: it throws on none).
renderPart(parts, k, avail, bad) ==
  IF isMathLike(parts[k].text)
  THEN IF avail
       THEN IF bad = k
            THEN escapeHtml(JsString(parts[k].text))
            ELSE katexRenderToString(parts[k].text)
       ELSE CodeOpen \o escapeHtml(JsString(parts[k].text)) \o CodeClose
  ELSE escapeHtml(JsString(parts[k].text))

renderPart_p0(parts, k, avail, bad) ==
  IF isMathLike_p0(parts[k].text)
  THEN IF avail
       THEN IF bad = k
            THEN escapeHtml_p0(JsString(parts[k].text))
            ELSE katexRenderToString(parts[k].text)
       ELSE CodeOpen \o escapeHtml_p0(JsString(parts[k].text)) \o CodeClose
  ELSE escapeHtml_p0(JsString(parts[k].text))

\* parts.map(...).join('') from part k on
RECURSIVE JoinFrom(_, _, _, _)
JoinFrom(parts, k, avail, bad) ==
  IF k > Len(parts) THEN <<>>
  ELSE renderPart(parts, k, avail, bad) \o JoinFrom(parts, k + 1, avail, bad)

RECURSIVE JoinFrom_p0(_, _, _, _)
JoinFrom_p0(parts, k, avail, bad) ==
  IF k > Len(parts) THEN <<>>
  ELSE renderPart_p0(parts, k, avail, bad)
       \o JoinFrom_p0(parts, k + 1, avail, bad)

\* The record of a call of renderMixedText: what it was given, what it made
\* on the way and what came back (out) or that it raised (threw).
Call(fn, arg, avail, bad, threw, converted, parts, out) ==
  [fn |-> fn, arg |-> arg, avail |-> avail, bad |-> bad, threw |-> threw,
   converted |-> converted, parts |-> parts, out |-> out]

NoCall == Call("none", JsUndefined, FALSE, 0, FALSE, <<>>, <<>>, <<>>)

\* renderMixedText(plain) of src/js/utils.js.  The try block raises where
\* String(plain) raises in convertPlainToLatexFragment(plain || ''), and
\* nowhere else: the engine is called inside its own try.  The catch block
\* returns escapeHtml(String(plain || '')), and raises where that String()
\* raises.
renderMixedText(plain, avail, bad) ==
  LET converted == convertPlainToLatexFragment(OrEmpty(plain))
      parts == tokenize(converted)
      tryRaises == StringThrows(OrEmpty(plain))
      catchRaises == StringThrows(OrEmpty(plain))
  IN  IF ~tryRaises
      THEN Call("renderMixedText", plain, avail, bad, FALSE, converted,
                parts, JoinFrom(parts, 1, avail, bad))
      ELSE IF ~catchRaises
      THEN Call("renderMixedText", plain, avail, bad, FALSE, <<>>, <<>>,
                escapeHtml(JsString(String(OrEmpty(plain)))))
      ELSE Call("renderMixedText", plain, avail, bad, TRUE, <<>>, <<>>, <<>>)

renderMixedText_p0(plain, avail, bad) ==
  LET converted == convertPlainToLatexFragment_p0(OrEmpty(plain))
      parts == tokenize_p0(converted)
      tryRaises == StringThrows(OrEmpty(plain))
      catchRaises == StringThrows(OrEmpty(plain))
  IN  IF ~tryRaises
      THEN Call("renderMixedText_p0", plain, avail, bad, FALSE, converted,
                parts, JoinFrom_p0(parts, 1, avail, bad))
      ELSE IF ~catchRaises
      THEN Call("renderMixedText_p0", plain, avail, bad, FALSE, <<>>, <<>>,
                escapeHtml_p0(JsString(String(OrEmpty(plain)))))
      ELSE Call("renderMixedText_p0", plain, avail, bad, TRUE, <<>>, <<>>,
                <<>>)

\* The parts the engine can be asked to typeset, and so can throw on.
MathIndexes(parts) == {k \in 1..Len(parts) : isMathLike(parts[k].text)}
MathIndexes_p0(parts) == {k \in 1..Len(parts) : isMathLike_p0(parts[k].text)}

\* ------------------------------------------------------------- the views
\* How the browser writes a text node back when innerHTML is read.
serializeText(t) ==
  ReplaceChar(ReplaceChar(ReplaceChar(t, "&", AmpEntity), "<", LtEntity),
              ">", GtEntity)

\* The first position of t where the HTML parser leaves text: a "<" followed
\* by a letter, "/", "!" or "?"; 0 when t is text throughout.  (The inputs
\* hold no ";", so no character reference.)
TagOpenAt(t) ==
  LET J == {i \in 1..Len(t) :
              t[i] = "<" /\ At(t, i + 1) \in Letter \cup {"/", "!", "?"}}
  IN  IF J = {} THEN 0 ELSE Min(J)

\* What el.innerHTML can read after el.innerHTML = t for a raw text t.  Text
\* is read back escaped.  From a tag on the parser builds elements out of the
\* user's text: what it makes of them is the browser's, and the model allows
\* both that it drops the tag and that it writes it back as it was.
ReadBacks(t) ==
  IF TagOpenAt(t) = 0
  THEN {serializeText(t)}
  ELSE {serializeText(SubSeq(t, 1, TagOpenAt(t) - 1)),
        serializeText(SubSeq(t, 1, TagOpenAt(t) - 1))
          \o SubSeq(t, TagOpenAt(t), Len(t))}

\* escapeText of assessment-manager.js: String(s), nothing escaped.
escapeText(x) ==
  IF x.t \in {"null", "undefined"} THEN <<>> ELSE String(x)

\* An assignment of markup to an element: the element, the user's text the
\* markup was made for, and the markup put in the text's place.
Assigned(el, text, html) == [el |-> el, text |-> text, html |-> html]

\* ----------------------------------------------------------------- inputs
\* The strings made of at most n chunks of a set of chunks.
RECURSIVE ChunkStrings(_, _)
ChunkStrings(chunks, n) ==
  IF n = 0 THEN {<<>>}
  ELSE LET S == ChunkStrings(chunks, n - 1)
       IN  S \cup {s \o c : s \in S, c \in chunks}

\* The non-empty strings of at most n characters of an alphabet.
Words(alphabet, n) ==
  ChunkStrings({<<c>> : c \in alphabet}, n) \ {<<>>}

\* Texts with markup characters and a little math.
HtmlChunks ==
  {<<"<">>, <<">">>, <<"&">>, <<"\"">>, <<"'">>, <<"b">>,
   <<"x","^","2">>, <<"1","/","2">>}

\* Texts for the tokenizer: a letter run, a backslash, numbers, macros as a
\* user can type them, a symbol, and the two texts the pattern of part_000
\* reads its \f and \s as.
TokenChunks ==
  {<<"a","b">>, <<"\\">>, <<"1","/","2">>, <<"1",".">>, <<"+">>, <<"}">>,
   <<"\\","f","r","a","c","{","1","}","{","2","}">>,
   <<" ","q","r","t","{","1","}">>,
   <<"\f","r","a","c","{","1","}","{","2","}">>}

\* Values that are no strings: null, undefined, the numbers 0 and 12, an
\* object String() throws on.
OtherValues ==
  {JsNull, JsUndefined, JsNumber(<<"0">>), JsNumber(<<"1","2">>), JsObject}

RenderInputs ==
  OtherValues \cup {JsString(s) : s \in ChunkStrings(HtmlChunks, MaxChunks)}

TokenInputs == {JsString(s) : s \in ChunkStrings(TokenChunks, MaxChunks)}

\* (A)/(B) with A and B of these characters, MaxInner characters in all.
InnerAlphabet == {"1", "/", "e", "^"}

ParenFraction(A, B) == <<"(">> \o A \o <<")", "/", "(">> \o B \o <<")">>

ParenFractionInputs ==
  {JsString(ParenFraction(A, B)) :
     <<A, B>> \in {p \in Words(InnerAlphabet, MaxInner - 1)
                          \X Words(InnerAlphabet, MaxInner - 1) :
                     Len(p[1]) + Len(p[2]) <= MaxInner}}

\* n/d between the texts c1 and c2 (each may be missing).
BeforeFraction == {<<>>, <<" ">>, <<"x">>, <<"_">>, <<"(">>, <<"/">>}
AfterFraction == {<<>>, <<" ">>, <<"x">>, <<"_">>, <<")">>, <<"/", "5">>}

BareFraction(c1, n, d, c2) == c1 \o n \o <<"/">> \o d \o c2

BareFractionInputs ==
  {JsString(BareFraction(c1, n, d, c2)) :
     c1 \in BeforeFraction, n \in Words({"1", "3"}, MaxDigits),
     d \in Words({"4"}, MaxDigits), c2 \in AfterFraction}

FractionInputs == ParenFractionInputs \cup BareFractionInputs

\* sqrt(X): the word in every letter case around digits, and in two letter
\* cases around an X with parentheses, letters and spaces.
SqrtWords ==
  {<<s, q, r, t>> : s \in {"s","S"}, q \in {"q","Q"}, r \in {"r","R"},
                    t \in {"t","T"}}

SqrtCall(w, X) == w \o <<"(">> \o X \o <<")">>

SqrtInputs ==
  {JsString(SqrtCall(w, X)) : w \in SqrtWords, X \in Words({"1", "6"}, MaxArg - 1)}
  \cup {JsString(SqrtCall(w, X)) :
          w \in {<<"s","q","r","t">>, <<"S","Q","R","T">>},
          X \in Words({"(", ")", "a", " "}, MaxArg)}

\* Words and what can touch them: pi and e alone, inside longer words, next
\* to a digit, a space and an exponent sign.
WordChunks == {<<"p","i">>, <<"e">>, <<"n">>, <<"0">>, <<" ">>, <<"^">>}

\* Notation with parentheses that need not match.
MalformedChunks ==
  {<<"s","q","r","t","(">>, <<"(">>, <<")","/","(">>, <<")">>, <<"1">>,
   <<"a">>}

\* The examples of unmatched parentheses: sqrt(16 and (a+b)/(c
MalformedExamples ==
  {<<"s","q","r","t","(","1","6">>,
   <<"(","a","+","b",")","/","(","c">>}

NormalizeInputs ==
  OtherValues
  \cup {JsString(s) : s \in ChunkStrings(WordChunks, MaxPieces)}
  \cup {JsString(s) : s \in ChunkStrings(MalformedChunks, MaxPieces)}
  \cup {JsString(s) : s \in MalformedExamples}

\* Texts that already hold an entity, and one with all five characters.
EntityExamples ==
  {<<"&","l","t",";">>, <<"&","a","m","p",";">>, <<"&","#","0","3","9",";">>,
   <<"a","&","b","<","c",">","\"","d","'">>}

EscapeInputs == RenderInputs \cup {JsString(s) : s \in EntityExamples}

\* Texts a user types one after another into a question's textarea: a plain
\* one, ones with a markup character and with a fraction, and no text yet.
CallChunks == {<<"b">>, <<"<">>, <<"1","/","2">>}
CallInputs == {JsNull} \cup {JsString(s) : s \in ChunkStrings(CallChunks, MaxChunks)}

\* ---------------------------------------------------- the assessment manager
\* The collection holds at most MaxDocs documents; after init's own call of
\* loadAssessments the listeners are called at most MaxOps times, and other
\* callers call saveAssessment at most MaxSaves times.
MaxDocs == 2
MaxOps == 2
MaxSaves == 1

Ids == 1..MaxDocs

\* No document id: the null that editingId defaults to and that
\* saveAssessment returns when nothing was saved.
Null == 0

Y2024 == <<"2", "0", "2", "4">>
Y2025 == <<"2", "0", "2", "5">>
Years == {Y2024, Y2025}

\* A document of "exams": of the content fields the year stands for all of
\* them (title, year, term, theclass, subject, assessmentType, questions).
Doc(year, status, createdAt, updatedAt) ==
  [year |-> year, status |-> status, createdAt |-> createdAt,
   updatedAt |-> updatedAt]

\* The values of yearInput, termSelect, classSelect, subjectSelect and
\* assessmentSelect when Save is asked for: all filled, or one of them empty
\* or a space.
FormFields == {"year", "term", "theclass", "subject", "assessmentType"}

Filled(year) ==
  [year |-> year, term |-> <<"T","1">>, theclass |-> <<"J","1">>,
   subject |-> <<"M">>, assessmentType |-> <<"C","A">>]

FormInputs ==
  {Filled(Y2024), Filled(<<" ">> \o Y2025 \o <<" ">>)}
  \cup {[Filled(Y2024) EXCEPT ![f] = <<>>] : f \in {"year", "theclass"}}
  \cup {[Filled(Y2024) EXCEPT ![f] = <<" ">>] :
          f \in {"term", "subject", "assessmentType"}}

\* The questions passed to saveAssessment: no array, an empty array, an
\* array of one question.
QuestionsInputs ==
  {[array |-> FALSE, length |-> 0], [array |-> TRUE, length |-> 0],
   [array |-> TRUE, length |-> 1]}

\* A buildExamDocFromUI that requires the year alone.
buildExamDocThrowsYearOnly(form) == Trim(form.year) = <<>>

\* buildExamDocFromUI throws: a field is empty after wp(...).toString().trim()
buildExamDocThrows(form) == \E f \in FormFields : Trim(form[f]) = <<>>

\* The arguments of a call of saveAssessment, and those of no such call.
SaveArgs(questions, editingId, makePublished, form) ==
  [questions |-> questions, editingId |-> editingId,
   makePublished |-> makePublished, form |-> form]

NoArgs == SaveArgs([array |-> FALSE, length |-> 0], Null, FALSE, Filled(<<>>))

\* The calls of saveAssessment made: every kind of questions, editingId and
\* makePublished with a form that is filled, and every form with every kind
\* of questions, for a new document.
SaveInputs ==
  {SaveArgs(q, e, p, Filled(<<" ">> \o Y2025 \o <<" ">>)) :
     q \in QuestionsInputs, e \in {Null} \cup Ids, p \in BOOLEAN}
  \cup {SaveArgs(q, Null, FALSE, f) : q \in QuestionsInputs, f \in FormInputs}

\* snap.forEach(d => rows.push({id: d.id, data})): the documents of the
\* collection in the order of their ids, from id i on
RECURSIVE RowsFrom(_, _)
RowsFrom(ex, i) ==
  IF i > MaxDocs THEN <<>>
  ELSE (IF i \in DOMAIN ex THEN <<[id |-> i, data |-> ex[i]]>> ELSE <<>>)
       \o RowsFrom(ex, i + 1)

\* rows.filter(...) of loadAssessments: a filter is the year asked for, the
\* empty string when none is.
FilterRows(rows, filter) ==
  SelectSeq(rows, LAMBDA r : filter = <<>> \/ r.data.year = filter)

\* items.sort((a, b) => tb - ta) of renderAssessmentsTable: newest first by
\* updatedAt, equal ones in the order they had.
RECURSIVE sortNewestFirst(_)
sortNewestFirst(items) ==
  IF items = <<>> THEN <<>>
  ELSE LET rest == sortNewestFirst(SubSeq(items, 1, Len(items) - 1))
           last == items[Len(items)]
           k == Cardinality({i \in DOMAIN rest :
                   rest[i].data.updatedAt >= last.data.updatedAt})
       IN  SubSeq(rest, 1, k) \o <<last>> \o SubSeq(rest, k + 1, Len(rest))

\* What uploadedAssessmentsBody shows: the page's own markup, "Loading...",
\* "Failed to load assessments.", "No assessments found.", or a row of
\* buttons for each item.
Table(kind, items) == [kind |-> kind, items |-> items]

\* cachedAssessments.find(x => x.id === id) found something
Cached(list, id) == \E i \in DOMAIN list : list[i].id = id

\* found && found.data && found.data.status ? found.data.status : 'Draft'
currStatus(list, id) ==
  IF Cached(list, id)
  THEN (LET i == CHOOSE j \in DOMAIN list :
                   list[j].id = id /\ \A h \in 1..(j - 1) : list[h].id # id
        IN  list[i].data.status)
  ELSE "Draft"

newStatus(curr) == IF curr = "Published" THEN "Draft" ELSE "Published"

\* A toast, and none.
Toast(type, text) == [type |-> type, text |-> text]
NoToast == Toast("none", "")

\* A call of an async function that is in flight: its number, the function,
\* the await it stands at, the document it is about, what it writes, the
\* filter it loads with and the promise it waits for.
Task(n, op, pc, id, year, status, filter, promise) ==
  [n |-> n, op |-> op, pc |-> pc, id |-> id, year |-> year,
   status |-> status, filter |-> filter, promise |-> promise]

\* A call of loadAssessments: the task that made it, its filter, and how it
\* settled.
Load(task, filter, state, rows) ==
  [task |-> task, filter |-> filter, state |-> state, rows |-> rows]

\* ------------------------------------------------ utils.js, debounce
\* A debounced function is called at most MaxCalls times, up to the time
\* MaxTime.
MaxCalls == 3
MaxTime == 4

\* The waits debounce is given, and the arguments the function is called
\* with.
Waits == {1, 2}
CallArgs == {"a", "b"}

\* A pending timeout of setTimeout(() => fn.apply(this, args), wait): its
\* id, when it is due, and the args its callback closes over.
Timeout(id, due, args) == [id |-> id, due |-> due, args |-> args]

\* A call of the debounced function: its number, its time, its arguments.
DebouncedCall(n, at, args) == [n |-> n, at |-> at, args |-> args]
NoDebouncedCall == DebouncedCall(0, 0, "")

\* A call of fn.
Invocation(args, at) == [args |-> args, at |-> at]

\* A clearTimeout that drops nothing.
clearTimeoutNothing(pending, id) == pending

\* clearTimeout(id): the timeout of the id, if it is pending, is dropped.
clearTimeout(pending, id) == {x \in pending : x.id # id}

\* --------------------------------------------- question-editor.js
\* The editor holds at most MaxQuestions questions.
MaxQuestions == 3

\* What a .questionInput holds: nothing, a space, a text.
QuestionTexts == {<<>>, <<" ">>, <<"a">>}

\* A .question-block: its data-id and the value of its .questionInput.
Block(id, text) == [id |-> id, text |-> text]

\* A click on the Delete button of the block of an id, and what
\* window.confirm returned; none.
DeleteClick(id, confirmed) == [id |-> id, confirmed |-> confirmed]
NoDeleteClick == DeleteClick(0, FALSE)

\* getQuestions(): the blocks whose text is not blank, in order, each with
\* its id and its trimmed text.
RECURSIVE getQuestions(_)
getQuestions(divs) ==
  IF divs = <<>> THEN <<>>
  ELSE LET questionText == Trim(divs[1].text)
       IN  (IF questionText # <<>>
            THEN <<[id |-> divs[1].id, question |-> questionText]>>
            ELSE <<>>)
           \o getQuestions(Tail(divs))

\* ------------------------------------------------------------------ state
VARIABLES
  plain,     \* the value at hand: a question's or an option's text, a cell
  katex,     \* whether the katex global is defined (its script has loaded)
  call,      \* the last call of the pipeline: see Call
  assigned   \* the markup the last handler assigned for the text, in order

\* The assessment manager (assessment-manager.js) and what it works on.
VARIABLES
  exams,              \* the remote collection "exams": id -> document
  now,                \* the server's clock, the value of serverTimestamp()
  cachedAssessments,  \* the module's cached list, as loadAssessments left it
  table,              \* what uploadedAssessmentsBody shows
  tasks,              \* the calls of the async functions that are in flight
  started,            \* how many such calls were made since init
  lastLoad,           \* the most recent call of loadAssessments
  toasted,            \* the toast shown last
  saveCall,           \* the arguments of the last call of saveAssessment
  returned            \* what the last settled saveAssessment resolved with

managerVars ==
  <<exams, now, cachedAssessments, table, tasks, started, lastLoad, toasted,
    saveCall, returned>>

\* utils.js: the loaders registry, the status area, the confirm dialog.
VARIABLES
  loaders,       \* the keys of the Map loaders: the overlays on display
  statusText,    \* the textContent of the status area
  statusTimer,   \* s._t: the text of the call of setStatus whose timeout
                 \* is pending, "" when none is
  promises,      \* the promises confirmDialog returned, in the order of calls
  okOnclick,     \* whose cleanup the onclick of the two buttons calls, or 0
  overlayShown   \* whether _confirmOverlay is on display

utilsVars ==
  <<loaders, statusText, statusTimer, promises, okOnclick,
    overlayShown>>

\* The manager before its module is evaluated, and utils.js before any call.
IdleManager ==
  /\ exams = [i \in {} |-> Null]
  /\ now = 1
  /\ cachedAssessments = <<>>
  /\ table = Table("static", <<>>)
  /\ tasks = {}
  /\ started = 0
  /\ lastLoad = Load(0, <<>>, "none", <<>>)
  /\ toasted = NoToast
  /\ saveCall = NoArgs
  /\ returned = Null

IdleUtils ==
  /\ loaders = {}
  /\ statusText = ""
  /\ statusTimer = ""
  /\ promises = <<>>
  /\ okOnclick = 0
  /\ overlayShown = FALSE

\* utils.js, debounce: the function debounce(fn, wait) returned, the timeouts
\* it set, and the calls of fn.
VARIABLES
  clock,      \* the time, in units of the timers
  wait,       \* the wait the function was wrapped with
  timers,     \* the timeouts set and neither fired nor cleared
  debounceT,  \* the closure's t: the id of the timeout set last, 0 for none
  invoked,    \* the calls of fn: the arguments and the time of each
  lastCall    \* the most recent call of the wrapped function

timerVars == <<clock, wait, timers, debounceT, invoked, lastCall>>

\* question-editor.js: the questions list and the editor's blocks.
VARIABLES
  questions,    \* the module's list questions: the ids, in order
  blocks,       \* the .question-block elements of questionList, in order
  deleteClick   \* the last click on a block's Delete button and its answer

editorVars == <<questions, blocks, deleteClick>>

IdleTimers ==
  /\ clock = 0
  /\ wait = 0
  /\ timers = {}
  /\ debounceT = 0
  /\ invoked = <<>>
  /\ lastCall = NoDebouncedCall

IdleEditor ==
  /\ questions = <<>>
  /\ blocks = <<>>
  /\ deleteClick = NoDeleteClick

pipelineVars == <<plain, katex, call, assigned>>
appVars == <<managerVars, utilsVars, timerVars, editorVars>>
vars == <<pipelineVars, appVars>>

InitWith(inputs) ==
  /\ plain \in inputs
  /\ katex = FALSE
  /\ call = NoCall
  /\ assigned = <<>>
  /\ IdleManager
  /\ IdleUtils
  /\ IdleTimers
  /\ IdleEditor

\* ---------------------------------------------------------------- actions
\* The KaTeX script that loadExternalLibraries appended finishes loading.
KatexScriptLoaded ==
  /\ ~katex
  /\ katex' = TRUE
  /\ UNCHANGED <<plain, call, assigned, appVars>>

\* A renderMixedText that keeps the availability its first call saw.
RenderMixedTextCached ==
  LET seen == IF call.fn = "none" THEN katex ELSE call.avail
  IN  \E bad \in {0} \cup (IF seen /\ ~StringThrows(OrEmpty(plain))
                           THEN MathIndexes(tokenize(
                                  convertPlainToLatexFragment(OrEmpty(plain))))
                           ELSE {}) :
        /\ call' = renderMixedText(plain, seen, bad)
        /\ UNCHANGED <<plain, katex, assigned, appVars>>

\* The user types another text into the question's textarea.
QuestionInput ==
  /\ plain' \in CallInputs \ {plain}
  /\ UNCHANGED <<katex, call, assigned, appVars>>

\* A renderMixedText whose parts go into an array of the module that no call
\* empties: the string returned begins with what the call before returned.
RenderMixedTextSharedParts ==
  \E bad \in {0} \cup (IF katex /\ ~StringThrows(OrEmpty(plain))
                       THEN MathIndexes(tokenize(
                              convertPlainToLatexFragment(OrEmpty(plain))))
                       ELSE {}) :
    /\ call' = [renderMixedText(plain, katex, bad) EXCEPT !.out = call.out \o @]
    /\ UNCHANGED <<plain, katex, assigned, appVars>>

\* A caller calls renderMixedText(plain); the engine, when it is there,
\* throws on the part at index bad or on none.
RenderMixedText ==
  \E bad \in {0} \cup (IF katex /\ ~StringThrows(OrEmpty(plain))
                       THEN MathIndexes(tokenize(
                              convertPlainToLatexFragment(OrEmpty(plain))))
                       ELSE {}) :
    /\ call' = renderMixedText(plain, katex, bad)
    /\ UNCHANGED <<plain, katex, assigned, appVars>>

RenderMixedText_p0 ==
  \E bad \in {0} \cup (IF katex /\ ~StringThrows(OrEmpty(plain))
                       THEN MathIndexes_p0(tokenize_p0(
                              convertPlainToLatexFragment_p0(OrEmpty(plain))))
                       ELSE {}) :
    /\ call' = renderMixedText_p0(plain, katex, bad)
    /\ UNCHANGED <<plain, katex, assigned, appVars>>

\* A caller calls convertPlainToLatexFragment(plain).
ConvertPlainToLatexFragment ==
  /\ call' = IF StringThrows(plain)
             THEN Call("convertPlainToLatexFragment", plain, katex, 0, TRUE,
                       <<>>, <<>>, <<>>)
             ELSE Call("convertPlainToLatexFragment", plain, katex, 0, FALSE,
                       convertPlainToLatexFragment(plain), <<>>,
                       convertPlainToLatexFragment(plain))
  /\ UNCHANGED <<plain, katex, assigned, appVars>>

ConvertPlainToLatexFragment_p0 ==
  /\ call' = IF StringThrows(plain)
             THEN Call("convertPlainToLatexFragment_p0", plain, katex, 0,
                       TRUE, <<>>, <<>>, <<>>)
             ELSE Call("convertPlainToLatexFragment_p0", plain, katex, 0,
                       FALSE, convertPlainToLatexFragment_p0(plain), <<>>,
                       convertPlainToLatexFragment_p0(plain))
  /\ UNCHANGED <<plain, katex, assigned, appVars>>

\* A caller calls escapeHtml(plain).
EscapeHtml ==
  /\ call' = IF StringThrows(plain)
             THEN Call("escapeHtml", plain, katex, 0, TRUE, <<>>, <<>>, <<>>)
             ELSE Call("escapeHtml", plain, katex, 0, FALSE, <<>>, <<>>,
                       escapeHtml(plain))
  /\ UNCHANGED <<plain, katex, assigned, appVars>>

\* A caller calls escapeHtml on the string escapeHtml(plain) returned: the
\* record keeps that string as converted.
EscapeHtmlTwice ==
  /\ call.fn = "escapeHtml"
  /\ ~call.threw
  /\ call' = Call("escapeHtmlTwice", call.arg, katex, 0, FALSE, call.out,
                  <<>>, escapeHtml(JsString(call.out)))
  /\ UNCHANGED <<plain, katex, assigned, appVars>>

\* The engine's choices for a call of renderMixedText on the string t.
BadChoices(t) ==
  {0} \cup (IF katex
            THEN MathIndexes(tokenize(convertPlainToLatexFragment(JsString(t))))
            ELSE {})

\* question-editor.js, the click handler of a block's Preview button, for a
\* block whose question text is plain and whose four options are blank.  The
\* text goes into the template of previewArea as it is; renderMath then finds
\* no .render-math in previewArea and re-renders its children: the <p> from
\* what its innerHTML reads, and last the <ul>, whose text is empty.
PreviewBtnClick ==
  /\ plain.t = "string"
  /\ \E rb \in ReadBacks(plain.v) :
       \E bad \in BadChoices(htmlToPlainText(rb)) :
         /\ assigned' =
              << Assigned("previewArea", plain.v, plain.v),
                 Assigned("previewArea p", plain.v,
                          renderMixedText(JsString(htmlToPlainText(rb)),
                                          katex, bad).out) >>
         /\ call' = renderMixedText(JsString(<<>>), katex, 0)
  /\ UNCHANGED <<plain, katex, appVars>>

\* preview.js, openPreviewModalFromData for one question whose text is plain
\* and that has no options: the text is rendered into the .render-math block.
OpenPreviewModalFromData ==
  /\ plain.t = "string"
  /\ \E bad \in BadChoices(htmlToPlainText(plain.v)) :
       /\ call' = renderMixedText(JsString(htmlToPlainText(plain.v)),
                                  katex, bad)
       /\ assigned' = << Assigned("previewInner .render-math", plain.v,
                                  call'.out) >>
  /\ UNCHANGED <<plain, katex, appVars>>

\* preview.js, printHandler, the onclick openPreviewModalFromData gave the
\* print button, for the same one question, when window.open gave a window:
\* the printable document holds escapeHtml(htmlToPlainText(q.question || ''))
\* after "Q1. ".  The modal keeps what it shows.
PrintHandler ==
  /\ plain.t = "string"
  /\ assigned # <<>>
  /\ assigned[1].el = "previewInner .render-math"
  /\ assigned' = << assigned[1],
                    Assigned("printable .q", plain.v,
                             escapeHtml(JsString(htmlToPlainText(plain.v)))) >>
  /\ UNCHANGED <<plain, katex, call, appVars>>

\* assessment-manager.js, renderAssessmentsTable for one stored assessment
\* whose assessmentType is plain: the cell holds escapeText(d.assessmentType
\* || '').
RenderAssessmentsTable ==
  /\ plain.t = "string"
  /\ assigned' = << Assigned("uploadedAssessmentsBody td", plain.v,
                             escapeText(OrEmpty(plain))) >>
  /\ UNCHANGED <<plain, katex, call, appVars>>

\* ------------------------------------------- actions: utils.js, the helpers
\* setStatus(text, timeoutMs) for a text that is not empty: the text is
\* shown; a timeout that is not 0 clears the pending revert and schedules
\* one, a timeout of 0 does neither.
setStatus(text, timeoutMs) ==
  /\ statusText' = text
  /\ statusTimer' = IF timeoutMs # 0 THEN text ELSE statusTimer

\* The timeout setStatus scheduled fires: the status area reverts.
StatusTimeout ==
  /\ statusTimer # ""
  /\ statusText' = "Ready"
  /\ statusTimer' = ""
  /\ UNCHANGED <<loaders, promises, okOnclick, overlayShown>>
  /\ UNCHANGED <<pipelineVars, managerVars, timerVars, editorVars>>

\* showLoader(key): the first argument is the key; an overlay is added
\* unless the registry has the key.  hideLoader(key) removes the overlay of
\* the key, if there is one.
showLoader(registry, key) == registry \cup {key}
hideLoader(registry, key) == registry \ {key}

\* ------------------------------------ actions: the assessment manager
\* The synchronous part of loadAssessments(filter), called by task n: the
\* table shows "Loading...", the status is set, getDocs is asked.
loadAssessmentsCalled(n, filter) ==
  /\ table' = Table("loading", <<>>)
  /\ setStatus("Loading assessments...", 2000)
  /\ lastLoad' = Load(n, filter, "pending", <<>>)

\* The rest of loadAssessments(filter) of task n once getDocs settled: with
\* a snapshot the filtered rows are cached and rendered (sorted in place,
\* when there are any), with an error the table says so and a toast is
\* shown.
loadAssessmentsSettled(n, filter, ok) ==
  LET filtered == FilterRows(RowsFrom(exams, 1), filter)
      items == sortNewestFirst(filtered)
  IN  /\ cachedAssessments' = IF ok THEN items ELSE cachedAssessments
      /\ table' = IF ~ok THEN Table("failed", <<>>)
                  ELSE IF items = <<>> THEN Table("none", <<>>)
                  ELSE Table("rows", items)
      /\ lastLoad' = IF lastLoad.task # n THEN lastLoad
                     ELSE IF ok THEN Load(n, filter, "ok", items)
                     ELSE Load(n, filter, "failed", <<>>)

\* A change of yearInput: init's listener calls loadAssessments({year}).
YearChanged ==
  /\ started < MaxOps
  /\ \E y \in Years :
       /\ tasks' = tasks \cup
            {Task(started + 1, "loadAssessments", "getDocs", Null, <<>>, "",
                  y, 0)}
       /\ loadAssessmentsCalled(started + 1, y)
  /\ started' = started + 1
  /\ UNCHANGED <<exams, now, cachedAssessments, toasted, saveCall, returned>>
  /\ UNCHANGED <<loaders, promises, okOnclick, overlayShown>>
  /\ UNCHANGED <<pipelineVars, timerVars, editorVars>>

\* getDocs of a call of loadAssessments made by init or by a listener
\* settles, with a snapshot or with an error.
LoadAssessmentsSettled ==
  \E t \in tasks : \E ok \in BOOLEAN :
    /\ t.op = "loadAssessments"
    /\ t.pc = "getDocs"
    /\ loadAssessmentsSettled(t.n, t.filter, ok)
    /\ toasted' = IF ok THEN toasted
                  ELSE Toast("error", "Failed to load assessments.")
    /\ tasks' = tasks \ {t}
    /\ UNCHANGED <<exams, now, started, saveCall, returned>>
    /\ UNCHANGED utilsVars
    /\ UNCHANGED <<pipelineVars, timerVars, editorVars>>

\* saveAssessment({questions, editingId, makePublished}) up to its first
\* await.  Without questions it toasts and returns null.  Otherwise the
\* loader is shown under the key "Saving assessment..."; when a field of the
\* form is blank buildExamDocFromUI throws and the catch block toasts, calls
\* hideLoader() and returns null; else the write is asked for.
saveAssessment(args) ==
  /\ saveCall' = args
  /\ IF ~args.questions.array \/ args.questions.length = 0
     THEN /\ toasted' = Toast("error", "No questions found to save.")
          /\ returned' = Null
          /\ UNCHANGED <<tasks, started, loaders>>
     ELSE IF buildExamDocThrows(args.form)
     THEN /\ loaders' = hideLoader(
                 showLoader(loaders, "Saving assessment..."), "global")
          /\ toasted' = Toast("error", "Save failed")
          /\ returned' = Null
          /\ UNCHANGED <<tasks, started>>
     ELSE /\ loaders' = showLoader(loaders, "Saving assessment...")
          /\ tasks' = tasks \cup
               {Task(started + 1, "saveAssessment", "write", args.editingId,
                     Trim(args.form.year),
                     IF args.makePublished THEN "Published" ELSE "Draft",
                     <<>>, 0)}
          /\ started' = started + 1
          /\ UNCHANGED <<toasted, returned>>

\* A caller calls saveAssessment, with an editingId or without.
SaveAssessment ==
  /\ started < MaxSaves
  /\ \E args \in SaveInputs : saveAssessment(args)
  /\ UNCHANGED <<exams, now, cachedAssessments, table, lastLoad>>
  /\ UNCHANGED <<statusText, statusTimer, promises, okOnclick,
                 overlayShown>>
  /\ UNCHANGED <<pipelineVars, timerVars, editorVars>>

\* A click on saveAssessmentBtn, the listener of attachSaveHandler: the
\* status is set, the questions are collected from the editor; with none a
\* toast says so, else saveAssessment is called for a new document.
SaveBtnClick ==
  /\ started < MaxOps
  /\ setStatus("Preparing save...", 2000)
  /\ \E length \in {0, 1} : \E form \in FormInputs :
       IF length = 0
       THEN /\ toasted' = Toast("error", "No questions found to save.")
            /\ UNCHANGED <<saveCall, returned, tasks, started, loaders>>
       ELSE saveAssessment(SaveArgs([array |-> TRUE, length |-> length],
                                    Null, FALSE, form))
  /\ UNCHANGED <<exams, now, cachedAssessments, table, lastLoad>>
  /\ UNCHANGED <<promises, okOnclick, overlayShown>>
  /\ UNCHANGED <<pipelineVars, timerVars, editorVars>>

\* updateDoc or addDoc of a call of saveAssessment settles.  updateDoc
\* writes every field of docObj, status and createdAt among them, and fails
\* when the document is not there; addDoc gives the document a new id.
\* Then the list is loaded again; on an error the catch block runs.
SaveWriteSettled ==
  \E t \in tasks :
    /\ t.op = "saveAssessment"
    /\ t.pc = "write"
    /\ \/ /\ t.id # Null
          /\ t.id \in DOMAIN exams
          /\ exams' = [exams EXCEPT ![t.id] = Doc(t.year, t.status, now, now)]
          /\ now' = now + 1
          /\ toasted' = Toast("success", "Assessment updated.")
          /\ tasks' = (tasks \ {t}) \cup {[t EXCEPT !.pc = "reload"]}
          /\ loadAssessmentsCalled(t.n, <<>>)
          /\ UNCHANGED <<returned, loaders>>
       \/ /\ t.id = Null
          /\ \E id \in Ids \ DOMAIN exams :
               /\ exams' = [i \in DOMAIN exams \cup {id} |->
                              IF i = id THEN Doc(t.year, t.status, now, now)
                              ELSE exams[i]]
               /\ tasks' = (tasks \ {t})
                             \cup {[t EXCEPT !.pc = "reload", !.id = id]}
          /\ now' = now + 1
          /\ toasted' = Toast("success", "Assessment saved.")
          /\ loadAssessmentsCalled(t.n, <<>>)
          /\ UNCHANGED <<returned, loaders>>
       \/ /\ toasted' = Toast("error", "Save failed")
          /\ loaders' = hideLoader(loaders, "global")
          /\ returned' = Null
          /\ tasks' = tasks \ {t}
          /\ UNCHANGED <<exams, now, table, lastLoad, statusText, statusTimer>>
    /\ UNCHANGED <<cachedAssessments, started, saveCall>>
    /\ UNCHANGED <<promises, okOnclick, overlayShown>>
    /\ UNCHANGED <<pipelineVars, timerVars, editorVars>>

\* A click on the Publish or Unpublish button of a row: the loader is shown
\* under the key "Updating status...", the new status is the other one of
\* what the cached list holds for the document, updateDoc is asked.
OnPublishToggleClicked ==
  /\ started < MaxOps
  /\ \E i \in DOMAIN table.items :
       LET id == table.items[i].id
       IN  tasks' = tasks \cup
             {Task(started + 1, "onPublishToggleClicked", "write", id, <<>>,
                   newStatus(currStatus(cachedAssessments, id)), <<>>, 0)}
  /\ loaders' = showLoader(loaders, "Updating status...")
  /\ started' = started + 1
  /\ UNCHANGED <<exams, now, cachedAssessments, table, lastLoad, toasted,
                 saveCall, returned>>
  /\ UNCHANGED <<statusText, statusTimer, promises, okOnclick,
                 overlayShown>>
  /\ UNCHANGED <<pipelineVars, timerVars, editorVars>>

\* updateDoc of a publish toggle settles: the status computed at the click
\* is written, or the write fails (as it does when the document is gone).
ToggleWriteSettled ==
  \E t \in tasks :
    /\ t.op = "onPublishToggleClicked"
    /\ t.pc = "write"
    /\ \/ /\ t.id \in DOMAIN exams
          /\ exams' = [exams EXCEPT ![t.id].status = t.status,
                                    ![t.id].updatedAt = now]
          /\ now' = now + 1
          /\ toasted' = Toast("success", IF t.status = "Published"
                                         THEN "Published." ELSE "Unpublished.")
          /\ tasks' = (tasks \ {t}) \cup {[t EXCEPT !.pc = "reload"]}
          /\ loadAssessmentsCalled(t.n, <<>>)
          /\ UNCHANGED loaders
       \/ /\ toasted' = Toast("error", "Status update failed")
          /\ loaders' = hideLoader(loaders, "global")
          /\ tasks' = tasks \ {t}
          /\ UNCHANGED <<exams, now, table, lastLoad, statusText, statusTimer>>
    /\ UNCHANGED <<cachedAssessments, started, saveCall, returned>>
    /\ UNCHANGED <<promises, okOnclick, overlayShown>>
    /\ UNCHANGED <<pipelineVars, timerVars, editorVars>>

\* confirmDialog(message): a new promise; the overlay is shown and the
\* onclick of both buttons is set to this call's cleanup.
confirmDialog ==
  /\ promises' = Append(promises, "pending")
  /\ okOnclick' = Len(promises) + 1
  /\ overlayShown' = TRUE

\* A click on the dialog's OK or Cancel button, while the button has an
\* onclick: cleanup hides the overlay, takes the onclick off both buttons and
\* resolves its promise.
ClickAnswer(result) ==
  /\ okOnclick # 0
  /\ promises' = [promises EXCEPT ![okOnclick] = result]
  /\ okOnclick' = 0
  /\ overlayShown' = FALSE
  /\ UNCHANGED <<loaders, statusText, statusTimer>>
  /\ UNCHANGED <<pipelineVars, managerVars, timerVars, editorVars>>

ClickOk == ClickAnswer("true")
ClickCancel == ClickAnswer("false")

\* A click on the Delete button of a row: the handler asks confirmDialog
\* and waits for its promise.
OnDeleteClicked ==
  /\ started < MaxOps
  /\ \E i \in DOMAIN table.items :
       tasks' = tasks \cup
         {Task(started + 1, "onDeleteClicked", "confirm", table.items[i].id,
               <<>>, "", <<>>, Len(promises) + 1)}
  /\ confirmDialog
  /\ started' = started + 1
  /\ UNCHANGED <<exams, now, cachedAssessments, table, lastLoad, toasted,
                 saveCall, returned>>
  /\ UNCHANGED <<loaders, statusText, statusTimer>>
  /\ UNCHANGED <<pipelineVars, timerVars, editorVars>>

\* The promise a Delete handler waits for is resolved: with false the
\* handler returns, with true the loader is shown under the key
\* "Deleting..." and deleteDoc is asked.
OnDeleteClickedAnswered ==
  \E t \in tasks :
    /\ t.op = "onDeleteClicked"
    /\ t.pc = "confirm"
    /\ promises[t.promise] # "pending"
    /\ IF promises[t.promise] = "true"
       THEN /\ loaders' = showLoader(loaders, "Deleting...")
            /\ tasks' = (tasks \ {t}) \cup {[t EXCEPT !.pc = "write"]}
       ELSE /\ tasks' = tasks \ {t}
            /\ UNCHANGED loaders
    /\ UNCHANGED <<exams, now, cachedAssessments, table, started, lastLoad,
                   toasted, saveCall, returned>>
    /\ UNCHANGED <<statusText, statusTimer, promises, okOnclick,
                   overlayShown>>
    /\ UNCHANGED <<pipelineVars, timerVars, editorVars>>

\* deleteDoc settles: the document is gone (if it was there) and the list is
\* loaded again, or the delete fails.
DeleteSettled ==
  \E t \in tasks :
    /\ t.op = "onDeleteClicked"
    /\ t.pc = "write"
    /\ \/ /\ exams' = [i \in DOMAIN exams \ {t.id} |-> exams[i]]
          /\ toasted' = Toast("success", "Deleted.")
          /\ tasks' = (tasks \ {t}) \cup {[t EXCEPT !.pc = "reload"]}
          /\ loadAssessmentsCalled(t.n, <<>>)
          /\ UNCHANGED loaders
       \/ /\ toasted' = Toast("error", "Delete failed")
          /\ loaders' = hideLoader(loaders, "global")
          /\ tasks' = tasks \ {t}
          /\ UNCHANGED <<exams, table, lastLoad, statusText, statusTimer>>
    /\ UNCHANGED <<now, cachedAssessments, started, saveCall, returned>>
    /\ UNCHANGED <<promises, okOnclick, overlayShown>>
    /\ UNCHANGED <<pipelineVars, timerVars, editorVars>>

\* The loadAssessments() that saveAssessment, onDeleteClicked or
\* onPublishToggleClicked awaits after its write settles; it never raises.
\* Then the handler calls hideLoader(), and saveAssessment returns the id.
ReloadSettled ==
  \E t \in tasks : \E ok \in BOOLEAN :
    /\ t.pc = "reload"
    /\ loadAssessmentsSettled(t.n, <<>>, ok)
    /\ toasted' = IF ok THEN toasted
                  ELSE Toast("error", "Failed to load assessments.")
    /\ loaders' = hideLoader(loaders, "global")
    /\ returned' = IF t.op = "saveAssessment" THEN t.id ELSE returned
    /\ tasks' = tasks \ {t}
    /\ UNCHANGED <<exams, now, started, saveCall>>
    /\ UNCHANGED <<statusText, statusTimer, promises, okOnclick,
                   overlayShown>>
    /\ UNCHANGED <<pipelineVars, timerVars, editorVars>>

\* A click on the Edit button of a row, whose document the cached list
\* holds: the loader is shown under the key "Loading assessment...", the
\* data is taken from the cached list, hideLoader() is called, the event
\* assessment:edit is dispatched and a toast says so.
OnEditClicked ==
  /\ \E i \in DOMAIN table.items : Cached(cachedAssessments, table.items[i].id)
  /\ loaders' = hideLoader(showLoader(loaders, "Loading assessment..."),
                           "global")
  /\ toasted' = Toast("info", "Assessment loaded for editing.")
  /\ UNCHANGED <<exams, now, cachedAssessments, table, tasks, started,
                 lastLoad, saveCall, returned>>
  /\ UNCHANGED <<statusText, statusTimer, promises, okOnclick,
                 overlayShown>>
  /\ UNCHANGED <<pipelineVars, timerVars, editorVars>>

\* ------------------------------------- actions: utils.js, the timer helpers
\* A caller calls setStatus(text, timeoutMs) with a text; timeoutMs may be 0.
StatusTexts == {"Saving...", "Saved"}
TimeoutsMs == {0, 2500, 4000}

SetStatus ==
  /\ \E text \in StatusTexts : \E timeoutMs \in TimeoutsMs :
       setStatus(text, timeoutMs)
  /\ UNCHANGED <<loaders, promises, okOnclick, overlayShown>>
  /\ UNCHANGED <<pipelineVars, managerVars, timerVars, editorVars>>

\* A call of the function debounce(fn, wait) returned: clearTimeout(t), then
\* t = setTimeout(() => fn.apply(this, args), wait).
DebouncedCalled ==
  /\ lastCall.n < MaxCalls
  /\ \E args \in CallArgs :
       /\ timers' = clearTimeout(timers, debounceT)
                      \cup {Timeout(lastCall.n + 1, clock + wait, args)}
       /\ lastCall' = DebouncedCall(lastCall.n + 1, clock, args)
  /\ debounceT' = lastCall.n + 1
  /\ UNCHANGED <<clock, wait, invoked>>
  /\ UNCHANGED <<pipelineVars, managerVars, utilsVars, editorVars>>

\* A timeout the debounced function set is due and its callback runs: fn is
\* called with the args of the call that set it.
DebounceTimeout ==
  /\ \E x \in timers :
       /\ x.due <= clock
       /\ invoked' = Append(invoked, Invocation(x.args, clock))
       /\ timers' = timers \ {x}
  /\ UNCHANGED <<clock, wait, debounceT, lastCall>>
  /\ UNCHANGED <<pipelineVars, managerVars, utilsVars, editorVars>>

\* Time passes; a timeout may run later than it is due.
Tick ==
  /\ clock < MaxTime
  /\ clock' = clock + 1
  /\ UNCHANGED <<wait, timers, debounceT, invoked, lastCall>>
  /\ UNCHANGED <<pipelineVars, managerVars, utilsVars, editorVars>>

\* ------------------------------------- actions: question-editor.js
\* A click on addQuestionBtn: a blank question with a new id is pushed to
\* questions and renderQuestionEditor appends its block.
NewId ==
  1 + Len(questions)

AddQuestionBtnClick ==
  /\ Len(questions) < MaxQuestions
  /\ questions' = Append(questions, NewId)
  /\ blocks' = Append(blocks, Block(NewId, <<>>))
  /\ UNCHANGED deleteClick
  /\ UNCHANGED <<pipelineVars, managerVars, utilsVars, timerVars>>

\* The user types into the .questionInput of a block.
QuestionInputTyped ==
  /\ \E i \in DOMAIN blocks : \E text \in QuestionTexts \ {blocks[i].text} :
       blocks' = [blocks EXCEPT ![i].text = text]
  /\ UNCHANGED <<questions, deleteClick>>
  /\ UNCHANGED <<pipelineVars, managerVars, utilsVars, timerVars>>

\* A click on the Delete button of a block: the listener calls
\* confirmAction("Delete this question?", callback).  confirmAction(message)
\* has one parameter: it asks window.confirm and resolves its promise with
\* the answer; the callback, the second argument, is never called.
DeleteBtnClick ==
  /\ \E i \in DOMAIN blocks : \E confirmed \in BOOLEAN :
       deleteClick' = DeleteClick(blocks[i].id, confirmed)
  /\ UNCHANGED <<questions, blocks>>
  /\ UNCHANGED <<pipelineVars, managerVars, utilsVars, timerVars>>

\* ---------------------------------------------------------- specifications
\* The rendering pipeline on texts with markup characters and on values that
\* are no strings.
Init == InitWith(RenderInputs)
Next == RenderMixedText \/ RenderMixedText_p0 \/ KatexScriptLoaded
Spec == Init /\ [][Next]_vars

\* The rendering pipeline on texts for the tokenizer.
InitTokens == InitWith(TokenInputs)
SpecTokens == InitTokens /\ [][Next]_vars

\* The normalizer on fractions and on square roots.
NextConvert == ConvertPlainToLatexFragment \/ ConvertPlainToLatexFragment_p0
InitFraction == InitWith(FractionInputs)
SpecFraction == InitFraction /\ [][NextConvert]_vars
InitSqrt == InitWith(SqrtInputs)
SpecSqrt == InitSqrt /\ [][NextConvert]_vars

\* The normalizer on words, on values that are no strings and on malformed
\* notation.
InitNormalize == InitWith(NormalizeInputs)
SpecNormalize == InitNormalize /\ [][NextConvert]_vars

\* The Sanitizer alone.
NextEscape == EscapeHtml \/ EscapeHtmlTwice
InitEscape == InitWith(EscapeInputs)
SpecEscape == InitEscape /\ [][NextEscape]_vars

\* The rendering pipeline called again and again, on one text after another.
InitCalls == InitWith(CallInputs)
NextCalls ==
  \/ QuestionInput
  \/ RenderMixedText
  \/ RenderMixedText_p0
  \/ KatexScriptLoaded
SpecCalls == InitCalls /\ [][NextCalls]_vars

\* The assessment manager once its module is evaluated: the collection holds
\* what earlier sessions saved, and init has called loadAssessments, with the
\* year of yearInput or with no filter.
InitialExams ==
  {[i \in {} |-> Null],
   [i \in {1} |-> Doc(Y2024, "Draft", 1, 1)],
   [i \in {1} |-> Doc(Y2024, "Published", 1, 1)]}

InitManager ==
  /\ plain = JsUndefined
  /\ katex = FALSE
  /\ call = NoCall
  /\ assigned = <<>>
  /\ exams \in InitialExams
  /\ now = 2
  /\ cachedAssessments = <<>>
  /\ table = Table("loading", <<>>)
  /\ \E y \in {<<>>, Y2024} :
       /\ tasks = {Task(0, "loadAssessments", "getDocs", Null, <<>>, "", y, 0)}
       /\ lastLoad = Load(0, y, "pending", <<>>)
  /\ started = 0
  /\ toasted = NoToast
  /\ saveCall = NoArgs
  /\ returned = Null
  /\ loaders = {}
  /\ statusText = "Loading assessments..."
  /\ statusTimer = "Loading assessments..."
  /\ promises = <<>>
  /\ okOnclick = 0
  /\ overlayShown = FALSE
  /\ IdleTimers
  /\ IdleEditor

NextManager ==
  \/ YearChanged
  \/ LoadAssessmentsSettled
  \/ SaveBtnClick
  \/ SaveWriteSettled
  \/ OnPublishToggleClicked
  \/ ToggleWriteSettled
  \/ OnDeleteClicked
  \/ ClickOk
  \/ ClickCancel
  \/ OnDeleteClickedAnswered
  \/ DeleteSettled
  \/ ReloadSettled
  \/ OnEditClicked
  \/ StatusTimeout

SpecManager == InitManager /\ [][NextManager]_vars

\* The calls of saveAssessment other callers than the Save button make,
\* with what they await.
NextSave ==
  \/ SaveAssessment
  \/ SaveWriteSettled
  \/ ReloadSettled
  \/ LoadAssessmentsSettled
  \/ StatusTimeout

SpecSave == InitManager /\ [][NextSave]_vars

\* The helpers of utils.js that set timeouts: a function wrapped by
\* debounce with some wait, and the status area.
InitTimers ==
  /\ plain = JsUndefined
  /\ katex = FALSE
  /\ call = NoCall
  /\ assigned = <<>>
  /\ IdleManager
  /\ IdleUtils
  /\ IdleEditor
  /\ clock = 0
  /\ wait \in Waits
  /\ timers = {}
  /\ debounceT = 0
  /\ invoked = <<>>
  /\ lastCall = NoDebouncedCall

NextTimers ==
  \/ DebouncedCalled
  \/ DebounceTimeout
  \/ Tick
  \/ SetStatus
  \/ StatusTimeout

SpecTimers == InitTimers /\ [][NextTimers]_vars

\* The question editor.
InitEditor == InitWith({JsUndefined})
NextEditor ==
  \/ AddQuestionBtnClick
  \/ QuestionInputTyped
  \/ DeleteBtnClick

SpecEditor == InitEditor /\ [][NextEditor]_vars

\* The handlers that put a text into a view.
InitViews == InitWith({JsString(s) : s \in ChunkStrings(HtmlChunks, MaxChunks)})
NextViews ==
  \/ PreviewBtnClick
  \/ OpenPreviewModalFromData
  \/ PrintHandler
  \/ RenderAssessmentsTable
  \/ KatexScriptLoaded
SpecViews == InitViews /\ [][NextViews]_vars

\* ------------------------------------------------------------- properties
\* The calls of renderMixedText, of either copy, and those that returned.
IsRender == call.fn \in {"renderMixedText", "renderMixedText_p0"}
RenderReturned == IsRender /\ ~call.threw

\* C1: renderMixedText never raises to its caller: every call of it, whatever
\* the value passed (null, undefined, a string, a number, an object whose
\* conversion to a string fails), returns a string.
C1_NeverRaises == IsRender => ~call.threw

\* The markup the Sanitizer makes of a text: escapeHtml of it (as the print
\* surface writes it) or renderMixedText of its plain text, whatever the
\* engine does.
Sanitized(text) ==
  LET t == htmlToPlainText(text)
  IN  {escapeHtml(JsString(text)), escapeHtml(JsString(t))}
      \cup {renderMixedText(JsString(t), a, b).out :
              a \in BOOLEAN,
              b \in {0} \cup MathIndexes(tokenize(
                               convertPlainToLatexFragment(JsString(t))))}

\* C2: on every path a user's text passes through the Sanitizer before it is
\* assigned to a view's markup: whatever a handler assigns for a text is
\* markup the Sanitizer made of that text, never the raw text.
C2_EscapedBeforeAssigned ==
  \A k \in 1..Len(assigned) : assigned[k].html \in Sanitized(assigned[k].text)

\* What escape makes of one character, and of a text character by character.
Entity(c) ==
  CASE c = "&" -> AmpEntity
    [] c = "<" -> LtEntity
    [] c = ">" -> GtEntity
    [] c = "\"" -> QuotEntity
    [] c = "'" -> AposEntity
    [] OTHER -> <<c>>

RECURSIVE Escaped(_)
Escaped(t) == IF t = <<>> THEN <<>> ELSE Entity(Head(t)) \o Escaped(Tail(t))

\* The markup of the segments from segment k on when there is no engine: a
\* match of the split pattern is a MATH segment, a gap a PLAIN one.
RECURSIVE NoEngineMarkup(_, _)
NoEngineMarkup(parts, k) ==
  IF k > Len(parts) THEN <<>>
  ELSE (IF parts[k].sep
        THEN CodeOpen \o Escaped(parts[k].text) \o CodeClose
        ELSE Escaped(parts[k].text))
       \o NoEngineMarkup(parts, k + 1)

\* A markup with its code markers taken out.
RECURSIVE WithoutCodeMarkers(_)
WithoutCodeMarkers(h) ==
  IF h = <<>> THEN <<>>
  ELSE IF StartsAt(h, CodeOpen, 1)
  THEN WithoutCodeMarkers(SubSeq(h, Len(CodeOpen) + 1, Len(h)))
  ELSE IF StartsAt(h, CodeClose, 1)
  THEN WithoutCodeMarkers(SubSeq(h, Len(CodeClose) + 1, Len(h)))
  ELSE <<Head(h)>> \o WithoutCodeMarkers(Tail(h))

\* C3: with no engine, the output of renderMixedText (src/js/utils.js) is the
\* concatenation, in order, of escape(t) for each PLAIN segment t and of
\* <code>escape(t)</code> for each MATH segment t; so outside the code
\* markers the output holds no "<", ">", double or single quote.
C3_NoEngineOutput ==
  (call.fn = "renderMixedText" /\ ~call.threw /\ ~call.avail) =>
    /\ call.out = NoEngineMarkup(call.parts, 1)
    /\ \A i \in 1..Len(WithoutCodeMarkers(call.out)) :
         WithoutCodeMarkers(call.out)[i] \notin {"<", ">", "\"", "'"}

\* A call without engine on a double quote followed by "<": a PLAIN and a
\* MATH segment, both escaped.
C3_Witness ==
  /\ call.fn = "renderMixedText" /\ ~call.threw /\ ~call.avail
  /\ call.arg = JsString(<<"\"", "<">>)
  /\ call.out = QuotEntity \o CodeOpen \o LtEntity \o CodeClose

\* The texts of the segments from segment k on, one after the other.
RECURSIVE Concat(_, _)
Concat(parts, k) ==
  IF k > Len(parts) THEN <<>> ELSE parts[k].text \o Concat(parts, k + 1)

\* C4: the segments of the tokenizer partition the fragment: none is empty,
\* and their texts, concatenated in order, are the fragment.
C4_SegmentsPartition ==
  RenderReturned =>
    /\ \A k \in 1..Len(call.parts) : call.parts[k].text # <<>>
    /\ Concat(call.parts, 1) = call.converted

\* A fragment of two matches side by side: the empty gaps before, between
\* and after the matches were dropped.
C4_Witness ==
  /\ call.fn = "renderMixedText" /\ ~call.threw
  /\ call.converted = <<"+", "+">>
  /\ Len(call.parts) = 2
  /\ call.parts[1].sep /\ call.parts[2].sep

\* C5: classification agrees with splitting, in both copies: a segment is a
\* match of the split pattern exactly when the math-like test classifies its
\* text as MATH.
C5_ClassificationAgrees ==
  /\ (call.fn = "renderMixedText" /\ ~call.threw) =>
       \A k \in 1..Len(call.parts) :
         call.parts[k].sep <=> isMathLike(call.parts[k].text)
  /\ (call.fn = "renderMixedText_p0" /\ ~call.threw) =>
       \A k \in 1..Len(call.parts) :
         call.parts[k].sep <=> isMathLike_p0(call.parts[k].text)

\* A call with a gap that holds a backslash, next to a match.
C5_Witness ==
  /\ RenderReturned
  /\ \E k \in 1..Len(call.parts) :
       ~call.parts[k].sep /\ "\\" \in {call.parts[k].text[i] :
                                         i \in 1..Len(call.parts[k].text)}
  /\ \E k \in 1..Len(call.parts) : call.parts[k].sep

\* The number of characters before segment k.
RECURSIVE LengthBefore(_, _)
LengthBefore(parts, k) ==
  IF k <= 1 THEN 0
  ELSE Len(parts[k - 1].text) + LengthBefore(parts, k - 1)

\* One MATH segment covers exactly the n characters from position i.
MathSegmentAt(parts, i, n) ==
  \E k \in 1..Len(parts) :
    /\ parts[k].sep
    /\ LengthBefore(parts, k) + 1 = i
    /\ Len(parts[k].text) = n

\* The length of a fraction macro \frac{A}{B} with A and B non-empty and
\* brace-free that starts at i (0: none does).
FracMacroAt(s, i) ==
  LET a == i + Len(FracOpen)
      j == IndexOf(s, "}", a)
      k == IndexOf(s, "}", j + 2)
  IN  IF /\ StartsAt(s, FracOpen, i)
         /\ j > a
         /\ At(s, j + 1) = "{"
         /\ k > j + 2
         /\ \A q \in (a..(j - 1)) \cup ((j + 2)..(k - 1)) : s[q] # "{"
      THEN k - i + 1
      ELSE 0

\* C6: the MATH segments are the matches of the listed patterns; in
\* particular every maximal run of letters of a fragment (one without
\* macros) is one MATH segment, and a fraction macro \frac{A}{B} is one MATH
\* segment.
C6_MathSegments ==
  RenderReturned =>
    /\ \A i \in 1..Len(call.converted) :
         ( /\ call.converted[i] \in Letter
           /\ At(call.converted, i - 1) \notin Letter
           /\ ~Contains(call.converted, <<"\\">>) )
         => MathSegmentAt(call.parts, i,
                          RunEnd(call.converted, Letter, i) - i + 1)
    /\ \A i \in 1..Len(call.converted) :
         FracMacroAt(call.converted, i) > 0
         => MathSegmentAt(call.parts, i, FracMacroAt(call.converted, i))

\* The calls of convertPlainToLatexFragment of src/js/utils.js, and of
\* either copy.  (The generated inputs are strings: none raises.)
IsConvert == call.fn = "convertPlainToLatexFragment"
IsConvertEither ==
  call.fn \in {"convertPlainToLatexFragment", "convertPlainToLatexFragment_p0"}

\* The A and the B of a text read as (A)/(B), and whether it is one: A and B
\* non-empty and without ")".
ParenA(s) == SubSeq(s, 2, IndexOf(s, ")", 1) - 1)
ParenB(s) == SubSeq(s, IndexOf(s, ")", 1) + 3, Len(s) - 1)
IsParenFraction(s) ==
  /\ ParenA(s) # <<>>
  /\ ParenB(s) # <<>>
  /\ IndexOf(ParenB(s), ")", 1) = 0
  /\ s = ParenFraction(ParenA(s), ParenB(s))

FracMacro(A, B) == FracOpen \o A \o <<"}", "{">> \o B \o <<"}">>

\* The rules that follow the parenthesized-fraction rule, in order.
laterRules(s) ==
  Replace("e",
    Replace("pi",
      Replace("exponent",
        Replace("sqrt",
          Replace("bareFraction", s)))))

Occurrences(s) ==
  {o \in (1..Len(s)) \X (1..Len(s)) \X (1..Len(s)) :
     /\ o[1] < o[2] /\ o[2] < o[3]
     /\ s[o[2]] = "/"
     /\ \A q \in (o[1]..(o[2] - 1)) \cup ((o[2] + 1)..o[3]) : s[q] \in Digit
     /\ At(s, o[1] - 1) \notin WordChar
     /\ At(s, o[3] + 1) \notin WordChar}

Leftmost(O) == CHOOSE o \in O : \A p \in O : o[1] <= p[1]

\* \frac{n}{d} for the occurrence o of s
RewrittenAs(s, o) ==
  FracMacro(SubSeq(s, o[1], o[2] - 1), SubSeq(s, o[2] + 1, o[3]))

HasDigitSlashDigit(s) == \E i \in 1..Len(s) : DigitSlashDigitAt(s, i)

IsSqrtCall(s) ==
  /\ Len(s) >= 7
  /\ SubSeq(s, 1, 4) \in SqrtWords
  /\ s[5] = "("
  /\ s[Len(s)] = ")"
SqrtArgument(s) == SubSeq(s, 6, Len(s) - 1)

IsDigits(X) == \A i \in 1..Len(X) : X[i] \in Digit

\* C9: the square-root rule is case-insensitive: for every letter-case
\* variant of sqrt and every digit string X, normalize of the variant applied
\* to (X) is \sqrt{X}.
C9_SqrtAnyCase ==
  (IsConvert /\ IsSqrtCall(call.arg.v) /\ IsDigits(SqrtArgument(call.arg.v)))
  => call.out = SqrtOpen \o SqrtArgument(call.arg.v) \o <<"}">>

\* normalize of sQrT(16)
C9_Witness ==
  /\ IsConvert
  /\ call.arg = JsString(SqrtCall(<<"s","Q","r","T">>, <<"1","6">>))
  /\ call.out = SqrtOpen \o <<"1","6">> \o <<"}">>

\* Whether the parentheses of X match, d of them being open before X.
RECURSIVE Balanced(_, _)
Balanced(X, d) ==
  IF X = <<>> THEN d = 0
  ELSE IF Head(X) = "(" THEN Balanced(Tail(X), d + 1)
  ELSE IF Head(X) = ")" THEN d > 0 /\ Balanced(Tail(X), d - 1)
  ELSE Balanced(Tail(X), d)

\* The macro opening a copy writes.
SqrtOpenOf(fn) ==
  IF fn = "convertPlainToLatexFragment" THEN SqrtOpen ELSE SqrtOpen_p0

\* C10, as claimed: the content of the macro is the literal text from sqrt(
\* to the first unmatched ")": for sqrt(X) with the parentheses of X matched
\* the content is X, and nothing of X is left outside the macro.
C10_ToUnmatchedParen ==
  ( /\ IsConvertEither
    /\ IsSqrtCall(call.arg.v)
    /\ Balanced(SqrtArgument(call.arg.v), 0) )
  => call.out = SqrtOpenOf(call.fn) \o SqrtArgument(call.arg.v) \o <<"}">>

\* A text without its leading white space; its last character when it is
\* white space only.
RECURSIVE DropLeadingSpace(_)
DropLeadingSpace(c) ==
  IF Len(c) > 1 /\ Head(c) \in Space THEN DropLeadingSpace(Tail(c)) ELSE c

\* C10, amended: the content of the macro is the text from sqrt( to the
\* first ")", matched or not (src/js/utils.js drops its leading white space),
\* and the text after that ")" is left outside the macro; sqrt() with nothing
\* before the first ")" is not rewritten.
C10_ToFirstParen ==
  (IsConvertEither /\ IsSqrtCall(call.arg.v)) =>
    LET s == call.arg.v
        j == IndexOf(s, ")", 6)
        c == SubSeq(s, 6, j - 1)
        rest == SubSeq(s, j + 1, Len(s))
    IN  IF c = <<>>
        THEN call.out = s
        ELSE call.out =
               SqrtOpenOf(call.fn)
               \o (IF IsConvert THEN DropLeadingSpace(c) ELSE c)
               \o <<"}">> \o rest

\* normalize of sqrt((a)a): the content is (a and a) is left outside.
C10_Witness ==
  /\ IsConvert
  /\ call.arg = JsString(SqrtCall(<<"s","q","r","t">>, <<"(","a",")","a">>))
  /\ call.out = SqrtOpen \o <<"(","a","}","a",")">>

\* The positions of s where a whole word lit starts.
WholeWordsAt(s, lit) ==
  {i \in 1..Len(s) :
     /\ StartsAt(s, lit, i)
     /\ At(s, i - 1) \notin WordChar
     /\ At(s, i + Len(lit)) \notin WordChar}

\* The positions of s where lit starts.
OccurrencesOf(s, lit) == {i \in 1..Len(s) : StartsAt(s, lit, i)}

\* C11: normalize rewrites pi (resp. e) exactly where it is a whole word: the
\* output holds one pi macro for each whole word pi of the input and one e
\* macro for each whole word e, and a word of letters that holds pi or e
\* only inside it, such as pine, is returned unchanged.
C11_WholeWords ==
  (IsConvert /\ call.arg.t = "string") =>
    /\ Cardinality(OccurrencesOf(call.out, PiMacro))
         = Cardinality(WholeWordsAt(call.arg.v, <<"p","i">>))
    /\ Cardinality(OccurrencesOf(call.out, EulerMacro))
         = Cardinality(WholeWordsAt(call.arg.v, <<"e">>))
    /\ ( /\ \A i \in 1..Len(call.arg.v) : call.arg.v[i] \in Letter
         /\ WholeWordsAt(call.arg.v, <<"p","i">>) = {}
         /\ WholeWordsAt(call.arg.v, <<"e">>) = {} ) => call.out = call.arg.v
    /\ call.arg.v = <<"p","i">> => call.out = PiMacro

\* normalize of pine
C11_Witness ==
  /\ IsConvert
  /\ call.arg = JsString(<<"p","i","n","e">>)
  /\ call.out = <<"p","i","n","e">>

\* C12: normalize is total on strings and guards the zero: it returns a
\* string, without raising, for every string; the empty string for null,
\* undefined and the empty string; and "0" for the number 0 and for the
\* string "0".
C12_TotalAndZero ==
  IsConvert =>
    /\ call.arg.t = "string" => ~call.threw
    /\ call.arg \in {JsNull, JsUndefined, JsString(<<>>)} =>
         ~call.threw /\ call.out = <<>>
    /\ call.arg \in {JsNumber(<<"0">>), JsString(<<"0">>)} =>
         ~call.threw /\ call.out = <<"0">>

\* normalize of the number 0
C12_Witness ==
  /\ IsConvert /\ ~call.threw
  /\ call.arg = JsNumber(<<"0">>)
  /\ call.out = <<"0">>

\* Whether some substring of s matches each of the rewrite patterns, said
\* from the patterns: (A)/(B); n/d between word boundaries; sqrt(X) in any
\* letter case; base^exponent; a whole word pi or e.
NoCloseParenIn(s, a, b) == \A q \in a..b : s[q] # ")"

HasParenFraction(s) ==
  \E j \in 1..Len(s) :
    /\ StartsAt(s, <<")", "/", "(">>, j)
    /\ \E i \in 1..(j - 2) : s[i] = "(" /\ NoCloseParenIn(s, i + 1, j - 1)
    /\ \E k \in (j + 4)..Len(s) : s[k] = ")" /\ NoCloseParenIn(s, j + 3, k - 1)

HasSqrtCall(s) ==
  \E i \in 1..Len(s) :
    /\ StartsAtIgnoreCase(s, <<"s","q","r","t","(">>, i)
    /\ \E j \in (i + 6)..Len(s) : s[j] = ")" /\ NoCloseParenIn(s, i + 5, j - 1)

HasExponent(s) ==
  \E i \in 1..Len(s) :
    s[i] \in ExponentBase /\ At(s, i + 1) = "^" /\ At(s, i + 2) \in ExponentChar

HasNoMatch(s) ==
  /\ ~HasParenFraction(s)
  /\ Occurrences(s) = {}
  /\ ~HasSqrtCall(s)
  /\ ~HasExponent(s)
  /\ WholeWordsAt(s, <<"p","i">>) = {}
  /\ WholeWordsAt(s, <<"e">>) = {}

\* C13: malformed notation passes through: an input no substring of which
\* matches a rewrite pattern, such as sqrt(16 or (a+b)/(c with their
\* unmatched parenthesis, is returned unchanged.
C13_PassThrough ==
  (IsConvert /\ call.arg.t = "string" /\ HasNoMatch(call.arg.v))
  => ~call.threw /\ call.out = call.arg.v

\* normalize of sqrt(16 and of (a+b)/(c
C13_Witness ==
  /\ IsConvert
  /\ call.arg.v \in MalformedExamples
  /\ HasNoMatch(call.arg.v)
  /\ call.out = call.arg.v

\* The five HTML-significant characters.
Significant == {"&", "<", ">", "\"", "'"}
HasSignificant(s) == \E i \in 1..Len(s) : s[i] \in Significant

\* C14: escape returns the empty string for null and undefined, and for a
\* string it returns what maps each character independently to its entity:
\* the entity a later replace writes is never escaped again.
C14_EscapePerCharacter ==
  call.fn = "escapeHtml" =>
    /\ call.arg \in {JsNull, JsUndefined} => ~call.threw /\ call.out = <<>>
    /\ call.arg.t = "string" => ~call.threw /\ call.out = Escaped(call.arg.v)

\* escape of the text with all five characters
C14_Witness ==
  /\ call.fn = "escapeHtml"
  /\ call.arg = JsString(<<"a","&","b","<","c",">","\"","d","'">>)
  /\ call.out = <<"a">> \o AmpEntity \o <<"b">> \o LtEntity \o <<"c">>
                \o GtEntity \o QuotEntity \o <<"d">> \o AposEntity

\* C15: escape(s) = s for every string s without HTML-significant
\* characters; for every s with one, escape(escape(s)) differs from
\* escape(s).
C15_IdempotentOnlyOnPlain ==
  /\ (call.fn = "escapeHtml" /\ call.arg.t = "string"
        /\ ~HasSignificant(call.arg.v)) => call.out = call.arg.v
  /\ (call.fn = "escapeHtmlTwice" /\ call.arg.t = "string") =>
       IF HasSignificant(call.arg.v)
       THEN call.out # call.converted
       ELSE call.out = call.arg.v

\* escape of escape of "<"
C15_Witness ==
  /\ call.fn = "escapeHtmlTwice"
  /\ call.arg = JsString(<<"<">>)
  /\ call.converted = LtEntity
  /\ call.out = AmpEntity \o <<"l","t",";">>

\* C16: with no engine, renderMixedText of x^2 is the escaped notation
\* wrapped in the code marker: the whole exponent expression is inside one
\* marker and nothing of it is outside.
C16_ExponentInsideMarker ==
  ( /\ call.fn = "renderMixedText" /\ ~call.threw /\ ~call.avail
    /\ call.arg = JsString(<<"x", "^", "2">>) )
  => call.out \in {CodeOpen \o Escaped(call.converted) \o CodeClose,
                   CodeOpen \o Escaped(call.arg.v) \o CodeClose}

\* The markup of the segments from segment k on when the engine is there and
\* throws on segment bad (0: on none): the engine's markup for a MATH
\* segment, escape for a PLAIN one and for the segment the engine threw on.
RECURSIVE EngineMarkup(_, _, _)
EngineMarkup(parts, k, bad) ==
  IF k > Len(parts) THEN <<>>
  ELSE (IF parts[k].sep /\ k # bad
        THEN katexRenderToString(parts[k].text)
        ELSE Escaped(parts[k].text))
       \o EngineMarkup(parts, k + 1, bad)

\* C17: engine failure is local: when the engine throws on MATH segment i,
\* the call still returns; its output holds escape(text of segment i) for
\* that segment and, for every other segment, what the call without the
\* failure returns for it.
C17_EngineFailureLocal ==
  (call.fn = "renderMixedText" /\ call.avail /\ call.bad > 0) =>
    /\ ~call.threw
    /\ call.parts[call.bad].sep
    /\ call.out = EngineMarkup(call.parts, 1, call.bad)
    /\ renderMixedText(call.arg, TRUE, 0).out = EngineMarkup(call.parts, 1, 0)

\* The engine throws on the first of the two MATH segments of "<>".
C17_Witness ==
  /\ call.fn = "renderMixedText" /\ call.avail /\ call.bad = 1
  /\ call.arg = JsString(<<"<", ">">>)
  /\ call.out = LtEntity \o katexRenderToString(<<">">>)

\* C18: availability of the engine is read at each call, never kept from an
\* earlier one: every call of renderMixedText renders its MATH segments
\* through the engine exactly when the katex global is there at that call,
\* whatever the calls before the script loaded saw.
C18_AvailabilityFresh ==
  [][ (call' # call /\ call'.fn \in {"renderMixedText", "renderMixedText_p0"})
      => /\ call'.avail = katex
         /\ (call'.fn = "renderMixedText" /\ ~call'.threw) =>
              call'.out = IF katex
                          THEN EngineMarkup(call'.parts, 1, call'.bad)
                          ELSE NoEngineMarkup(call'.parts, 1) ]_vars

\* A call after the script loaded, with a MATH segment the engine typeset.
C18_Witness ==
  /\ call.fn = "renderMixedText" /\ ~call.threw
  /\ katex /\ call.avail
  /\ call.arg = JsString(<<"b", "<">>)
  /\ call.out = <<"b">> \o katexRenderToString(<<"<">>)

\* C19: the printable document holds, for a question text, the markup the
\* preview holds for it: what printHandler writes for the question is what
\* openPreviewModalFromData put into the question's .render-math block.
C19_PrintEmbedsRenderedMarkup ==
  \A i \in DOMAIN assigned : \A j \in DOMAIN assigned :
    (/\ assigned[i].el = "previewInner .render-math"
     /\ assigned[j].el = "printable .q"
     /\ assigned[i].text = assigned[j].text)
    => assigned[j].html = assigned[i].html

\* C20: a text is escaped once on its way into a view, also when renderMath
\* renders again what an element already shows: the markup put in the place
\* of a text that holds no entity never holds the entity of an entity
\* (&amp;amp;, &amp;lt;, &amp;gt;), the mark of a second escape.
C20_EscapedOnce ==
  \A k \in 1..Len(assigned) : \A c \in {"&", "<", ">"} :
    ~Contains(assigned[k].text, Entity(c))
    => ~Contains(assigned[k].html, Escaped(Entity(c)))

C22_ToggleFlips ==
  [][ \A t \in tasks :
        (/\ t.op = "onPublishToggleClicked"
         /\ t.pc = "write"
         /\ [t EXCEPT !.pc = "reload"] \in tasks')
        => /\ exams'[t.id].status \in {"Draft", "Published"}
           /\ exams'[t.id].status # exams[t.id].status ]_vars

\* C23: saveAssessment with an editingId leaves the stored status and the
\* stored createdAt of the document as they were: when its updateDoc is
\* applied, createdAt is unchanged, and the status is unchanged unless
\* makePublished asked for Published.
C23_EditKeepsStatusAndCreatedAt ==
  [][ \A t \in tasks :
        (/\ t.op = "saveAssessment"
         /\ t.pc = "write"
         /\ t.id # Null
         /\ [t EXCEPT !.pc = "reload"] \in tasks')
        => /\ exams'[t.id].createdAt = exams[t.id].createdAt
           /\ exams'[t.id].status = IF t.status = "Published"
                                    THEN "Published"
                                    ELSE exams[t.id].status ]_vars

\* A call of saveAssessment that writes nothing: no array of questions, an
\* empty one, or a field of the form that is blank after trimming.
InvalidSave(args) ==
  \/ ~args.questions.array
  \/ args.questions.length = 0
  \/ \E f \in FormFields : Trim(args.form[f]) = <<>>

\* C24: a call of saveAssessment without questions or with a blank field
\* asks for no write and leaves the collection as it is, shows an error
\* toast and returns null.
C24_InvalidSaveWritesNothing ==
  [][ (saveCall' # saveCall /\ InvalidSave(saveCall'))
      => /\ exams' = exams
         /\ tasks' = tasks
         /\ toasted'.type = "error"
         /\ returned' = Null ]_vars

\* A call with a question and a blank term has returned, the loader shown,
\* while the collection holds a document.
C24_Witness ==
  /\ saveCall.questions.length = 1
  /\ saveCall.form.term = <<" ">>
  /\ toasted = Toast("error", "Save failed")
  /\ returned = Null
  /\ "Saving assessment..." \in loaders
  /\ DOMAIN exams = {1}
  /\ \A t \in tasks : t.op # "saveAssessment"

\* C25: when no save, delete or publish toggle is in flight, every loader
\* overlay these operations and the edit-load showed is removed: the
\* loaders registry is empty.
C25_LoadersPaired ==
  (\A t \in tasks : t.op = "loadAssessments") => loaders = {}

\* C26: once every call of loadAssessments has settled, the cached list and
\* the table hold the result of the call made last: its rows when it got a
\* snapshot, the failure notice when it did not.
C26_LastRequestWins ==
  (\A t \in tasks : t.pc \notin {"getDocs", "reload"})
  => /\ lastLoad.state = "ok"
        => /\ cachedAssessments = lastLoad.rows
           /\ table = IF lastLoad.rows = <<>> THEN Table("none", <<>>)
                      ELSE Table("rows", lastLoad.rows)
     /\ lastLoad.state = "failed" => table = Table("failed", <<>>)

\* C27: every promise confirmDialog returned is resolved by the click that
\* answers its dialog: a promise that is still pending is the one the
\* onclick of the OK and Cancel buttons resolves, so none is left pending
\* for ever, also when confirmDialog is called again before an answer.
C27_PendingIsAnswerable ==
  \A i \in DOMAIN promises : promises[i] = "pending" => okOnclick = i

\* C28: a call of a debounced function never calls fn itself and leaves one
\* timeout pending, its own, due wait later (the one of the call before is
\* cancelled); fn is called only when wait has passed since the most recent
\* call, with the arguments of that call, once: no timeout is left and no
\* earlier call of fn is later than that call.
C28_Debounced ==
  [][ /\ lastCall' # lastCall
         => /\ invoked' = invoked
            /\ timers' = {Timeout(lastCall'.n, clock + wait, lastCall'.args)}
      /\ invoked' # invoked
         => /\ lastCall.n > 0
            /\ invoked' = Append(invoked, Invocation(lastCall.args, clock))
            /\ clock >= lastCall.at + wait
            /\ \A i \in DOMAIN invoked : invoked[i].at <= lastCall.at
            /\ timers' = {} ]_vars

\* The function was called twice with different arguments, the second time
\* before the first call's wait had passed, and fn was called once, for the
\* second call.
C28_Witness ==
  /\ lastCall.n = 2
  /\ lastCall.at < wait
  /\ lastCall.args = "b"
  /\ invoked = <<Invocation("b", lastCall.at + wait)>>

\* C29: a revert to "Ready" is the revert of the call of setStatus whose
\* text the status area shows: the timeout of an earlier call never
\* replaces the text of a later one.
C29_RevertIsOwn ==
  [][ (statusTimer # "" /\ statusTimer' = "") => statusTimer = statusText ]_vars

\* C30: after a click on a block's Delete button that the user confirmed,
\* the block and the question of its id are gone and getQuestions does not
\* return it.
C30_ConfirmedDeleteRemoves ==
  deleteClick.confirmed
  => /\ \A i \in DOMAIN blocks : blocks[i].id # deleteClick.id
     /\ \A i \in DOMAIN questions : questions[i] # deleteClick.id
     /\ \A i \in DOMAIN getQuestions(blocks) :
          getQuestions(blocks)[i].id # deleteClick.id

=============================================================================
